---- MODULE Spec2Model ----
(***************************************************************************)
(* Model of ipaserver/install/dsinstance.py: the DsInstance service        *)
(* object, the step lists built by create_instance / enable_ssl /          *)
(* create_replica, the step bodies that carry state (instance creation,    *)
(* service lifecycle, replication set-up, memberof task, start-on-boot)    *)
(* and uninstall.  The step runner (service.Service.step /                 *)
(* start_creation) and the state store (sysrestore.StateFile) live in      *)
(* modules outside dsinstance.py; they are modelled from the written       *)
(* specification.                                                          *)
(***************************************************************************)
EXTENDS Integers, Sequences, FiniteSets, TLC

\* ------------------------------------------------------------------ bounds
\* upper bound of the memberof-task poll loop, in polls
PollUpperBound == 2

\* ------------------------------------------------------ values and constants
None == "None"
DMPassword == "dm_password"
Absent == "absent"
ServerId == "SERVERID"
DirectoryManagerDN == "cn=Directory Manager"

Passwords == {None, DMPassword}

\* no join call was made
NoJoin == [r_binddn |-> None, r_bindpw |-> None, cacert |-> None]

\* the keys uninstall consumes, in the order of its restore_state calls
RestoreOrder ==
    << "enabled", "running", "serverid", "user_exists",
       "nsslapd-port", "nsslapd-security", "nsslapd-ldapiautobind" >>

StateKeys == {RestoreOrder[i] : i \in 1..Len(RestoreOrder)}

BoolStr(b) == IF b THEN "True" ELSE "False"

\* --------------------------------------------------------------- step lists
\* DsInstance.__common_setup(enable_ssl)
common_setup(enable_ssl) ==
    << "creating directory server user",
       "creating directory server instance",
       "enabling ldapi",
       "configure autobind for root",
       "stopping directory server",
       "updating configuration in dse.ldif",
       "starting directory server",
       "adding default schema",
       "enabling memberof plugin",
       "enabling winsync plugin",
       "configuring replication version plugin",
       "enabling IPA enrollment plugin",
       "configuring uniqueness plugin",
       "configuring uuid plugin",
       "configuring modrdn plugin",
       "configuring DNS plugin",
       "enabling entryUSN plugin",
       "configuring lockout plugin",
       "configuring topology plugin",
       "creating indices",
       "enabling referential integrity plugin" >>
    \o (IF enable_ssl THEN << "configuring TLS for DS instance" >> ELSE << >>)
    \o << "configuring certmap.conf",
          "configure new location for managed entries",
          "configure dirsrv ccache",
          "enabling SASL mapping fallback" >>

\* DsInstance.__common_post_setup()
common_post_setup ==
    << "initializing group membership",
       "adding master entry",
       "initializing domain level",
       "configuring Posix uid/gid generation",
       "adding replication acis",
       "enabling compatibility plugin",
       "activating sidgen plugin",
       "activating extdom plugin",
       "tuning directory server",
       "configuring directory to start on boot" >>

\* the steps create_instance queues
create_instance_steps(hbac_allow) ==
    common_setup(FALSE)
    \o << "restarting directory server",
          "adding sasl mappings to the directory",
          "adding default layout",
          "adding delegation layout",
          "creating container for managed entries",
          "configuring user private groups",
          "configuring netgroups from hostgroups",
          "creating default Sudo bind user",
          "creating default Auto Member layout",
          "adding range check plugin" >>
    \o (IF hbac_allow THEN << "creating default HBAC rule allow_all" >> ELSE << >>)
    \o << "adding entries for topology management" >>
    \o common_post_setup

\* the steps enable_ssl queues
enable_ssl_steps ==
    << "configuring TLS for DS instance",
       "restarting directory server",
       "adding CA certificate entry" >>

\* variant: with promote, TLS is configured after the initial replication
create_replica_steps_tls_late(prom, pkcs12) ==
    common_setup(~prom)
    \o << "restarting directory server",
          "creating DS keytab",
          "setting up initial replication" >>
    \o (IF prom
          THEN (IF pkcs12 THEN << "configuring TLS for DS instance" >>
                          ELSE << "retrieving DS Certificate" >>)
               \o << "restarting directory server" >>
          ELSE << >>)
    \o << "adding sasl mappings to the directory",
          "updating schema",
          "setting Auto Member configuration",
          "enabling S4U2Proxy delegation",
          "importing CA certificates from LDAP" >>
    \o common_post_setup

\* the steps create_replica queues
create_replica_steps(prom, pkcs12) ==
    common_setup(~prom)
    \o << "restarting directory server",
          "creating DS keytab" >>
    \o (IF prom
          THEN (IF pkcs12 THEN << "configuring TLS for DS instance" >>
                          ELSE << "retrieving DS Certificate" >>)
               \o << "restarting directory server" >>
          ELSE << >>)
    \o << "setting up initial replication",
          "adding sasl mappings to the directory",
          "updating schema",
          "setting Auto Member configuration",
          "enabling S4U2Proxy delegation",
          "importing CA certificates from LDAP" >>
    \o common_post_setup

\* labels whose method carries state of its own and has its own action
StatefulLabels ==
    { "creating directory server instance",
      "stopping directory server",
      "starting directory server",
      "restarting directory server",
      "configuring TLS for DS instance",
      "retrieving DS Certificate",
      "setting up initial replication",
      "initializing group membership",
      "tuning directory server",
      "configuring directory to start on boot" }

\* ---------------------------------------------------------------- variables
VARIABLES
    \* DsInstance fields
    steps,              \* self.steps: the queued (label, method) pairs, by label
    dm_password,        \* self.dm_password
    promote,            \* self.promote
    pkcs12_info,        \* self.pkcs12_info is set
    ca_file,            \* self.ca_file
    run_init_memberof,  \* self.run_init_memberof
    \* step runner
    scenario,           \* the entry point of the current run
    declared,           \* the list handed to start_creation
    status,             \* "idle", "running", "done", "failed"
    idx,                \* number of steps that returned
    cur,                \* index of the step executing, 0 when none
    trace,              \* <<"start"|"return"|"raise", index>> events of the run
    failedLabel,        \* label reported to the caller
    failedCause,        \* error reported to the caller
    runtime,            \* the runtime budget handed to start_creation
    overrun,            \* the runner has flagged the budget as exceeded
    \* host
    running,            \* the directory server process is up
    connected,          \* api.Backend.ldap2 is connected
    svc_enabled,        \* start-on-boot setting of dirsrv
    instance_exists,    \* the slapd-SERVERID instance exists
    etc_dirsrv,         \* the entries of ETC_DIRSRV, in the order of os.listdir
    sstore_rest,        \* module -> key -> value: the other modules' state records
    security,           \* nsslapd-security is on
    store,              \* state store of the dirsrv module: key -> value
    backupLog,          \* keys in the store, in the order they were recorded
    \* service lifecycle
    svcLog,             \* the calls made by the last start / stop / restart
    lastRestart,        \* how the last restart of the run went
    \* replication set-up and memberof task
    rsub,               \* position inside __setup_replica
    bind_dn,            \* r_binddn chosen for the join
    bind_pw,            \* r_bindpw chosen for the join
    netCalls,           \* network calls made by __setup_replica, in order
    fixup_report,       \* what needs_memberof_fixup() returned in this run
    joinError,          \* the error setup_promote_replication ended with
    join_args,          \* the keyword arguments setup_promote_replication got
    flagSource,         \* where run_init_memberof got its value from
    memberof,           \* progress of init_memberof in this run
    polls,              \* polls made by wait_for_task
    markerAt,           \* the poll at which the task's exit code appears
    \* uninstall
    upc,                \* position inside uninstall; "returned" once it ran
    todo,               \* instances the restart loop has still to restart
    recorded,           \* backupLog as uninstall found it
    uninstallLog,       \* the calls uninstall made, in order
    restored,           \* key -> value restore_state returned to uninstall
    cleanupErrors,      \* the failures uninstall caught and logged
    \* history
    firstBackup,        \* key -> first value passed to backup_state since restore
    lastBackup,         \* key -> last value passed to backup_state in the run
    enabled_preinstall, \* start-on-boot setting before installation touched it
    toolLog,            \* <<tool, flag, exit ok>> of the external tools run
    spc,                \* position inside a step that records a backup
    pwOutcome,          \* how the last change_admin_password call ended
    \* directory
    dl_entry,           \* what the directory holds under cn=Domain Level
    dl_result,          \* what the call of get_domain_level came to
    plugins,            \* the plugin entries present under cn=config
    pluginLog,          \* the calls of the plugin methods and their outcomes
    \* add_ca_cert
    capc,               \* position inside add_ca_cert
    ca_in,              \* what the call was given: file access and nickname
    ca_status,          \* what the call returned or raised
    certdb,             \* nicknames of the CA certificates in the cert db
    caLog,              \* the calls add_ca_cert made, in order
    \* __enable_ssl, certificate request
    tpc,                \* position inside __enable_ssl
    ca_helper,          \* the helper certmonger holds for the CA 'IPA'
    prev_helper,        \* the local prev_helper of __enable_ssl
    helperLog           \* the modify_ca_helper calls of the last request

objVars == << steps, dm_password, promote, pkcs12_info, ca_file, run_init_memberof >>
runVars == << scenario, declared, status, idx, cur, trace, failedLabel, failedCause,
             runtime, overrun >>
hostVars == << running, connected, svc_enabled, instance_exists, etc_dirsrv,
              sstore_rest, security >>
storeVars == << store, backupLog >>
svcVars == << svcLog, lastRestart >>
replVars == << rsub, bind_dn, bind_pw, netCalls, fixup_report, joinError, join_args, flagSource,
               memberof, polls, markerAt >>

uninstVars == << upc, todo, recorded, uninstallLog, restored, cleanupErrors >>
histVars == << firstBackup, lastBackup >>
caVars == << capc, ca_in, ca_status, certdb, caLog >>
tlsVars == << tpc, ca_helper, prev_helper, helperLog >>
ldapVars == << dl_entry, dl_result, plugins, pluginLog, caVars, tlsVars >>

vars == << objVars, runVars, hostVars, storeVars, svcVars, replVars,
           uninstVars, histVars, enabled_preinstall, ldapVars, toolLog, spc, pwOutcome >>

objRest == << dm_password, promote, pkcs12_info, ca_file, run_init_memberof >>
otherVars == << uninstVars, histVars, enabled_preinstall, ldapVars, toolLog, spc,
               pwOutcome >>

\* ------------------------------------------------------------- state store
\* StateFile.backup_state: record value under key unless key is recorded
backup_state(st, key, value) ==
    IF st[key] = Absent THEN [st EXCEPT ![key] = value] ELSE st

\* order of recording after backup_state(key, .)
backup_order(st, log, key) ==
    IF st[key] = Absent THEN Append(log, key) ELSE log

\* StateFile.restore_state: the value returned (None when never backed up)
restored_value(st, key) == IF st[key] = Absent THEN None ELSE st[key]

\* StateFile.restore_state: the store afterwards
restore_state(st, key) == [st EXCEPT ![key] = Absent]

restore_order(log, key) == SelectSeq(log, LAMBDA k : k # key)

\* history: the first value a key was backed up with since its last restore
note_first(fb, key, value) ==
    IF fb[key] = Absent THEN [fb EXCEPT ![key] = value] ELSE fb

\* the other directory server instances a host may hold, and all instance
\* names in sorted order
OtherInstances == {"AAA", "ZZZ"}
SortedInstanceNames == << "AAA", ServerId, "ZZZ" >>

\* position of an instance name in the order of instances.sort()
Rank(name) ==
    IF \E i \in 1..Len(SortedInstanceNames) : SortedInstanceNames[i] = name
      THEN CHOOSE i \in 1..Len(SortedInstanceNames) : SortedInstanceNames[i] = name
      ELSE 0

\* an entry of ETC_DIRSRV: its basename is prefix, instance and suffix put
\* together, and isdir tells whether it is a directory
DS_INSTANCE_PREFIX == "slapd-"
DirEntry(prefix, instance, suffix, isdir) == << prefix, instance, suffix, isdir >>

\* what os.listdir may return for the entries other than this instance's:
\* in any order, with removed instances, an empty instance name, a
\* directory without the prefix and a plain file
OtherListings ==
    { << >>,
      << DirEntry(DS_INSTANCE_PREFIX, "ZZZ", "", TRUE),
         DirEntry(DS_INSTANCE_PREFIX, "AAA", ".removed", TRUE),
         DirEntry(DS_INSTANCE_PREFIX, "AAA", "", TRUE) >>,
      << DirEntry(DS_INSTANCE_PREFIX, "ZZZ", ".removed", TRUE),
         DirEntry(DS_INSTANCE_PREFIX, "", "", TRUE),
         DirEntry("schema-", "ZZZ", "", TRUE),
         DirEntry(DS_INSTANCE_PREFIX, "ZZZ", "", FALSE),
         DirEntry(DS_INSTANCE_PREFIX, "AAA", "", TRUE) >>,
      << DirEntry(DS_INSTANCE_PREFIX, "AAA", ".removed", TRUE) >> }

\* the listing once setup-ds.pl has created the instance's directory
add_dir(listing, serverid) ==
    LET own == DirEntry(DS_INSTANCE_PREFIX, serverid, "", TRUE) IN
    IF \E i \in 1..Len(listing) : listing[i] = own
      THEN listing ELSE Append(listing, own)

\* the listing once remove-ds.pl has removed the instance's directory
remove_dir(listing, serverid) ==
    SelectSeq(listing,
              LAMBDA e : e # DirEntry(DS_INSTANCE_PREFIX, serverid, "", TRUE))

\* the state file holds one section per installer module; DsInstance
\* reads and writes the section of its own service name
service_name == "dirsrv"
OtherModules == {"krb5kdc"}
Modules == {service_name} \cup OtherModules

\* the whole state file, from this module's section and the others'
StateFile(own, rest) ==
    [m \in Modules |-> IF m = service_name THEN own ELSE rest[m]]

\* variant: restoring a key drops it from every module's section
restore_states_every_module(file, module, keys) ==
    [m \in DOMAIN file |->
        [k \in DOMAIN file[m] |->
            IF k \in {keys[i] : i \in 1..Len(keys)} THEN Absent ELSE file[m][k]]]

\* variant: restore_state returns the values and leaves the records
restore_states_keeps_records(file, module, keys) == file

\* StateFile.restore_state(module, key) for each key of keys: the file
\* afterwards
restore_states(file, module, keys) ==
    [m \in DOMAIN file |->
        IF m = module
          THEN [k \in DOMAIN file[m] |->
                  IF k \in {keys[i] : i \in 1..Len(keys)}
                    THEN Absent ELSE file[m][k]]
          ELSE file[m]]

\* the sections of the other modules after this module restored keys
others_after_restore(own, rest, keys) ==
    [m \in OtherModules |->
        restore_states(StateFile(own, rest), service_name, keys)[m]]

\* -------------------------------------------------------- directory entries
\* the largest domain level an entry is given, and the calls made to the
\* plugin configuration methods
MaxStoredLevel == 11
MaxPluginCalls == 3

\* constants.DOMAIN_LEVEL_0
DOMAIN_LEVEL_0 == 0

\* decimal digits, as characters
Digits == << "0", "1", "2", "3", "4", "5", "6", "7", "8", "9" >>

\* the text of a non-negative integer, as the directory stores it
RECURSIVE str(_)
str(n) ==
    IF n < 10 THEN << Digits[n + 1] >>
    ELSE Append(str(n \div 10), Digits[(n % 10) + 1])

\* int(text) for a non-empty text of decimal digits
RECURSIVE int(_)
int(text) ==
    LET last == CHOOSE d \in 0..9 : Digits[d + 1] = text[Len(text)] IN
    IF Len(text) = 1 THEN last
    ELSE 10 * int(SubSeq(text, 1, Len(text) - 1)) + last

\* what get_entry finds under cn=Domain Level: nothing, an entry without
\* the attribute, or an entry with the level as text
NotFound == [found |-> FALSE, ipaDomainLevel |-> << >>]
DomainLevelEntries ==
    {NotFound, [found |-> TRUE, ipaDomainLevel |-> << >>]}
    \cup {[found |-> TRUE, ipaDomainLevel |-> str(n)] : n \in 0..MaxStoredLevel}

\* variant: errors.NotFound is not caught
get_domain_level_strict(entry) ==
    IF ~entry.found THEN [raised |-> "NotFound"]
    ELSE IF entry.ipaDomainLevel = << >> THEN [raised |-> "KeyError"]
    ELSE [raised |-> None, value |-> int(entry.ipaDomainLevel)]

\* get_domain_level: DOMAIN_LEVEL_0 on errors.NotFound, else the attribute
\* converted by int(); single_value raises KeyError without the attribute
get_domain_level(entry) ==
    IF ~entry.found THEN [raised |-> None, value |-> DOMAIN_LEVEL_0]
    ELSE IF entry.ipaDomainLevel = << >> THEN [raised |-> "KeyError"]
    ELSE [raised |-> None, value |-> int(entry.ipaDomainLevel)]

\* the plugin entries under cn=plugins,cn=config and their payloads
SIDGEN_DN == "cn=IPA SIDGEN,cn=plugins,cn=config"
EXTDOM_DN == "cn=ipa_extdom_extop,cn=plugins,cn=config"
PluginDNs == {SIDGEN_DN, EXTDOM_DN}

\* the directory before any of these calls, as the installer runs see it
DirectoryAtRest ==
    /\ dl_entry = NotFound
    /\ dl_result = [raised |-> "unset"]
    /\ plugins = {}
    /\ pluginLog = << >>

\* ---------------------------------------------------------------- __init__
\* DsInstance.__init__: the object and the records of a host no installer
\* run has touched
ObjectAtRest ==
    /\ steps = << >>
    /\ dm_password = None
    /\ promote = FALSE
    /\ pkcs12_info = FALSE
    /\ ca_file = None
    /\ run_init_memberof = TRUE
    /\ scenario = "none"
    /\ declared = << >>
    /\ status = "idle"
    /\ idx = 0
    /\ cur = 0
    /\ trace = << >>
    /\ failedLabel = None
    /\ failedCause = None
    /\ runtime = 0
    /\ overrun = FALSE
    /\ svc_enabled \in BOOLEAN
    /\ instance_exists = FALSE
    /\ etc_dirsrv \in OtherListings
    /\ Len(etc_dirsrv) = 3
    /\ sstore_rest = [m \in OtherModules |->
                        [k \in StateKeys |->
                            IF k \in {"enabled", "running"} THEN "True" ELSE Absent]]
    /\ security = FALSE
    /\ store = [k \in StateKeys |-> Absent]
    /\ backupLog = << >>
    /\ svcLog = << >>
    /\ lastRestart = "none"
    /\ rsub = "none"
    /\ bind_dn = None
    /\ bind_pw = None
    /\ netCalls = << >>
    /\ fixup_report = "unset"
    /\ joinError = None
    /\ join_args = NoJoin
    /\ flagSource = "default"
    /\ memberof = "none"
    /\ polls = 0
    /\ markerAt = 0
    /\ upc = "none"
    /\ todo = << >>
    /\ recorded = << >>
    /\ uninstallLog = << >>
    /\ restored = [k \in StateKeys |-> None]
    /\ cleanupErrors = {}
    /\ firstBackup = [k \in StateKeys |-> Absent]
    /\ lastBackup = [k \in StateKeys |-> Absent]
    /\ enabled_preinstall = svc_enabled
    /\ toolLog = << >>
    /\ spc = "none"
    /\ pwOutcome = "none"

\* the same with the directory server not running
InstallerAtRest ==
    /\ ObjectAtRest
    /\ running = FALSE
    /\ connected = FALSE

\* the helpers certmonger can hold for the CA 'IPA' before __enable_ssl
Helpers == {"helper A", "helper B"}

\* the helper __enable_ssl sets for its request: helper = " ".join(ca_args)
DogtagSubmit == "/usr/libexec/certmonger/dogtag-submit --agent-submit"

\* no certificate request was made; certmonger holds its first helper
TlsAtRest ==
    /\ tpc = "none"
    /\ ca_helper = "helper A"
    /\ prev_helper = "unset"
    /\ helperLog = << >>

\* no call of add_ca_cert was made
CaCertAtRest ==
    /\ capc = "none"
    /\ ca_in = [access |-> "unset", cacert_name |-> ""]
    /\ ca_status = "unset"
    /\ certdb = {}
    /\ caLog = << >>

Init ==
    /\ InstallerAtRest
    /\ DirectoryAtRest
    /\ CaCertAtRest
    /\ TlsAtRest

\* ------------------------------------------------------------- step runner
\* Service.start_creation(runtime=budget) entered with the queued steps
start_creation(name, queued, budget) ==
    /\ scenario' = name
    /\ runtime' = budget
    /\ overrun' = FALSE
    /\ steps' = queued
    /\ declared' = queued
    /\ status' = IF queued = << >> THEN "done" ELSE "running"
    /\ idx' = 0
    /\ cur' = 0
    /\ trace' = << >>
    /\ failedLabel' = None
    /\ failedCause' = None
    /\ svcLog' = << >>
    /\ lastRestart' = "none"
    /\ rsub' = "none"
    /\ bind_dn' = None
    /\ bind_pw' = None
    /\ netCalls' = << >>
    /\ fixup_report' = "unset"
    /\ joinError' = None
    /\ join_args' = NoJoin
    /\ memberof' = "none"
    /\ polls' = 0
    /\ markerAt' = 0
    /\ upc' = "none"
    /\ todo' = << >>
    /\ recorded' = << >>
    /\ uninstallLog' = << >>
    /\ restored' = [k \in StateKeys |-> None]
    /\ cleanupErrors' = {}
    /\ enabled_preinstall' =
          IF store["enabled"] = Absent THEN svc_enabled ELSE enabled_preinstall
    /\ lastBackup' = [k \in StateKeys |-> Absent]
    /\ toolLog' = << >>
    /\ pwOutcome' = "none"
    /\ UNCHANGED << flagSource, firstBackup, spc, ldapVars >>

\* the runner announces and enters the next step
StartStep ==
    /\ status = "running"
    /\ cur = 0
    /\ idx < Len(steps)
    /\ cur' = idx + 1
    /\ trace' = Append(trace, << "start", idx + 1 >>)
    /\ UNCHANGED << scenario, declared, status, idx, failedLabel, failedCause,
                    runtime, overrun >>
    /\ UNCHANGED << objVars, hostVars, storeVars, svcVars, replVars, otherVars >>

InStep(label) ==
    /\ status = "running"
    /\ cur # 0
    /\ steps[cur] = label

\* variant: the budget is a hard limit, the run is aborted once it is exceeded
StepReturns_hard_budget ==
    /\ trace' = Append(trace, << "return", cur >>)
    /\ idx' = cur
    /\ cur' = 0
    /\ \/ /\ overrun' = overrun
          /\ status' = IF cur = Len(steps) THEN "done" ELSE "running"
          /\ steps' = IF cur = Len(steps) THEN << >> ELSE steps
          /\ UNCHANGED << failedLabel, failedCause >>
       \/ /\ overrun' = TRUE
          /\ status' = "failed"
          /\ steps' = << >>
          /\ failedLabel' = steps[cur]
          /\ failedCause' = "RuntimeExceeded"
    /\ UNCHANGED << scenario, declared, runtime >>

\* the method of the current step returned; the runner reads the clock and
\* flags the budget as exceeded when it is, then goes on
StepReturns ==
    /\ trace' = Append(trace, << "return", cur >>)
    /\ overrun' \in {overrun, TRUE}
    /\ idx' = cur
    /\ cur' = 0
    /\ status' = IF cur = Len(steps) THEN "done" ELSE "running"
    /\ steps' = IF cur = Len(steps) THEN << >> ELSE steps
    /\ UNCHANGED << scenario, declared, failedLabel, failedCause, runtime >>

\* variant: a run that is aborted keeps its queued steps on the object
StepRaises_keeps_steps(cause) ==
    /\ trace' = Append(trace, << "raise", cur >>)
    /\ status' = "failed"
    /\ failedLabel' = steps[cur]
    /\ failedCause' = cause
    /\ cur' = 0
    /\ steps' = steps
    /\ UNCHANGED << scenario, declared, idx, runtime, overrun >>

\* the method of the current step raised: the run is aborted
StepRaises(cause) ==
    /\ trace' = Append(trace, << "raise", cur >>)
    /\ status' = "failed"
    /\ failedLabel' = steps[cur]
    /\ failedCause' = cause
    /\ cur' = 0
    /\ steps' = << >>
    /\ UNCHANGED << scenario, declared, idx, runtime, overrun >>


\* ------------------------------------------------------------ simple steps
\* a step whose method applies one payload or calls one collaborator
payload_step ==
    /\ status = "running"
    /\ cur # 0
    /\ steps[cur] \notin StatefulLabels
    /\ \/ StepReturns
       \/ StepRaises("CalledProcessError")
    /\ UNCHANGED << objRest, hostVars, storeVars, svcVars, replVars, otherVars >>

\* --------------------------------------------------- service lifecycle
\* variant: the service is stopped with the session left as it is
stop_keeps_session(stopOk) ==
    [ running   |-> IF stopOk THEN FALSE ELSE running,
      connected |-> connected,
      log       |-> << "stop" >>,
      raised    |-> IF stopOk THEN None ELSE "CalledProcessError" ]

\* DsInstance.stop: close the session if open, then stop the service
stop(stopOk) ==
    [ running   |-> IF stopOk THEN FALSE ELSE running,
      connected |-> FALSE,
      log       |-> (IF connected THEN << "disconnect" >> ELSE << >>)
                    \o << "stop" >>,
      raised    |-> IF stopOk THEN None ELSE "CalledProcessError" ]

\* DsInstance.start: start the service, then open the session
start(startOk) ==
    [ running   |-> IF startOk THEN TRUE ELSE running,
      connected |-> IF startOk THEN TRUE ELSE connected,
      log       |-> << "start" >> \o (IF startOk THEN << "connect" >> ELSE << >>),
      raised    |-> IF startOk THEN None ELSE "CalledProcessError" ]

\* variant: the session is reopened before the running-check is made
restart_check_after_connect(callResult, up) ==
    [ running   |-> up,
      connected |-> callResult # "SystemExit" /\ up,
      log       |-> << "disconnect", "restart" >>
                    \o (IF callResult # "SystemExit" THEN << "connect" >> ELSE << >>)
                    \o (IF callResult = "ok" THEN << "is_ds_running" >> ELSE << >>),
      outcome   |-> IF callResult = "SystemExit" THEN "exit"
                    ELSE IF callResult = "Exception" THEN "call_failed"
                    ELSE IF ~up THEN "not_running"
                    ELSE "ok",
      raised    |-> IF callResult = "SystemExit" THEN "SystemExit"
                    ELSE IF ~up THEN "NetworkError"
                    ELSE None ]

\* DsInstance.restart.  callResult is how Service.restart ended ("ok",
\* "Exception" or "SystemExit"), up whether the server runs afterwards.
\* ScriptError raised by the running-check is an Exception: the handler
\* logs it and the method goes on to ldap2.connect(), which needs the server.
restart(callResult, up) ==
    [ running   |-> up,
      connected |-> callResult # "SystemExit" /\ up,
      log       |-> << "disconnect", "restart" >>
                    \o (IF callResult = "ok" THEN << "is_ds_running" >> ELSE << >>)
                    \o (IF callResult # "SystemExit" THEN << "connect" >> ELSE << >>),
      outcome   |-> IF callResult = "SystemExit" THEN "exit"
                    ELSE IF callResult = "Exception" THEN "call_failed"
                    ELSE IF ~up THEN "not_running"
                    ELSE "ok",
      raised    |-> IF callResult = "SystemExit" THEN "SystemExit"
                    ELSE IF ~up THEN "NetworkError"
                    ELSE None ]

RestartResults == {"ok", "Exception", "SystemExit"}

\* DsInstance.__stop_instance
stop_instance ==
    /\ InStep("stopping directory server")
    /\ \E stopOk \in BOOLEAN :
          LET r == stop(stopOk) IN
          /\ running' = r.running
          /\ connected' = r.connected
          /\ svcLog' = r.log
          /\ IF r.raised = None THEN StepReturns ELSE StepRaises(r.raised)
    /\ UNCHANGED << objRest, svc_enabled, instance_exists, etc_dirsrv,
                    sstore_rest, security, storeVars,
                    lastRestart, replVars, otherVars >>

\* DsInstance.__start_instance
start_instance ==
    /\ InStep("starting directory server")
    /\ \E startOk \in BOOLEAN :
          LET r == start(startOk) IN
          /\ running' = r.running
          /\ connected' = r.connected
          /\ svcLog' = r.log
          /\ IF r.raised = None THEN StepReturns ELSE StepRaises(r.raised)
    /\ UNCHANGED << objRest, svc_enabled, instance_exists, etc_dirsrv,
                    sstore_rest, security, storeVars,
                    lastRestart, replVars, otherVars >>

\* DsInstance.__restart_instance
restart_instance ==
    /\ InStep("restarting directory server")
    /\ \E callResult \in RestartResults, up \in BOOLEAN :
          LET r == restart(callResult, up) IN
          /\ running' = r.running
          /\ connected' = r.connected
          /\ svcLog' = r.log
          /\ lastRestart' = r.outcome
          /\ IF r.raised = None THEN StepReturns ELSE StepRaises(r.raised)
    /\ UNCHANGED << objRest, svc_enabled, instance_exists, etc_dirsrv,
                    sstore_rest, security, storeVars,
                    replVars, otherVars >>

\* DsInstance.__tuning -> tune_nofile(8192)
tuning ==
    /\ InStep("tuning directory server")
    /\ \/ \* tune_nofile_platform() says not to proceed
          /\ StepReturns
          /\ UNCHANGED << running, connected, svcVars >>
       \/ \E callResult \in RestartResults, up \in BOOLEAN, modOk \in BOOLEAN :
             LET r == restart(callResult, up) IN
             /\ running' = r.running
             /\ connected' = r.connected
             /\ svcLog' = r.log
             /\ lastRestart' = r.outcome
             /\ IF r.raised # None THEN StepRaises(r.raised)
                ELSE IF modOk THEN StepReturns
                ELSE StepRaises("CalledProcessError")
    /\ UNCHANGED << objRest, svc_enabled, instance_exists, etc_dirsrv,
                    sstore_rest, security, storeVars,
                    replVars, otherVars >>

\* ----------------------------------------------------- instance creation
\* variant: the serverid is not recorded before the instance is created
create_instance_backup_skipped ==
    /\ InStep("creating directory server instance")
    /\ spc = "none"
    /\ spc' = "recorded"
    /\ UNCHANGED << objVars, runVars, hostVars, storeVars, svcVars, replVars,
                    uninstVars, histVars, enabled_preinstall, ldapVars, pwOutcome, toolLog >>

\* DsInstance.__create_instance, first part: backup_state("serverid", ...)
create_instance_backup ==
    /\ InStep("creating directory server instance")
    /\ spc = "none"
    /\ store' = backup_state(store, "serverid", ServerId)
    /\ backupLog' = backup_order(store, backupLog, "serverid")
    /\ firstBackup' = note_first(firstBackup, "serverid", ServerId)
    /\ lastBackup' = [lastBackup EXCEPT !["serverid"] = ServerId]
    /\ spc' = "recorded"
    /\ UNCHANGED << objVars, runVars, hostVars, svcVars, replVars, uninstVars,
                    enabled_preinstall, ldapVars, pwOutcome, toolLog >>

\* variant: a failure of setup-ds.pl is swallowed and the step returns
create_instance_step_swallow ==
    /\ InStep("creating directory server instance")
    /\ spc = "recorded"
    /\ spc' = "none"
    /\ \/ /\ instance_exists' = TRUE
          /\ etc_dirsrv' = add_dir(etc_dirsrv, ServerId)
          /\ running' = TRUE
          /\ toolLog' = << << "setup-ds.pl", "", TRUE >> >>
       \/ /\ UNCHANGED << instance_exists, etc_dirsrv, running >>
          /\ toolLog' = << << "setup-ds.pl", "", FALSE >> >>
    /\ StepReturns
    /\ UNCHANGED << objRest, connected, svc_enabled, sstore_rest, security,
                    storeVars, svcVars, replVars, uninstVars, histVars,
                    enabled_preinstall, ldapVars, pwOutcome >>

\* variant: a failure of setup-ds.pl takes the serverid record back
create_instance_step_undo ==
    /\ InStep("creating directory server instance")
    /\ spc = "recorded"
    /\ spc' = "none"
    /\ \/ /\ instance_exists' = TRUE
          /\ etc_dirsrv' = add_dir(etc_dirsrv, ServerId)
          /\ running' = TRUE
          /\ toolLog' = << << "setup-ds.pl", "", TRUE >> >>
          /\ StepReturns
          /\ UNCHANGED storeVars
       \/ /\ store' = restore_state(store, "serverid")
          /\ backupLog' = restore_order(backupLog, "serverid")
          /\ UNCHANGED << instance_exists, etc_dirsrv, running >>
          /\ toolLog' = << << "setup-ds.pl", "", FALSE >> >>
          /\ StepRaises("RuntimeError")
    /\ UNCHANGED << objRest, connected, svc_enabled, sstore_rest, security,
                    svcVars, replVars, uninstVars, histVars, enabled_preinstall, ldapVars,
                    pwOutcome >>

\* DsInstance.__create_instance, second part: run setup-ds.pl; its
\* CalledProcessError is raised as RuntimeError
create_instance_step ==
    /\ InStep("creating directory server instance")
    /\ spc = "recorded"
    /\ spc' = "none"
    /\ \/ /\ instance_exists' = TRUE
          /\ etc_dirsrv' = add_dir(etc_dirsrv, ServerId)
          /\ running' = TRUE
          /\ toolLog' = << << "setup-ds.pl", "", TRUE >> >>
          /\ StepReturns
       \/ /\ UNCHANGED << instance_exists, etc_dirsrv, running >>
          /\ toolLog' = << << "setup-ds.pl", "", FALSE >> >>
          /\ StepRaises("RuntimeError")
    /\ UNCHANGED << objRest, connected, svc_enabled, sstore_rest, security,
                    storeVars, svcVars, replVars, uninstVars, histVars,
                    enabled_preinstall, ldapVars, pwOutcome >>

\* variant: the service is disabled before its setting is read and recorded
enable_backup_disable_first ==
    /\ InStep("configuring directory to start on boot")
    /\ spc = "none"
    /\ svc_enabled' = FALSE
    /\ store' = backup_state(store, "enabled", BoolStr(FALSE))
    /\ backupLog' = backup_order(store, backupLog, "enabled")
    /\ firstBackup' = note_first(firstBackup, "enabled", BoolStr(FALSE))
    /\ lastBackup' = [lastBackup EXCEPT !["enabled"] = BoolStr(FALSE)]
    /\ spc' = "recorded"
    /\ UNCHANGED << objVars, runVars, running, connected, instance_exists, etc_dirsrv,
                    sstore_rest, security, svcVars, replVars, uninstVars, enabled_preinstall, ldapVars, pwOutcome,
                    toolLog >>

\* DsInstance.__enable, first part: backup_state("enabled", is_enabled())
enable_backup ==
    /\ InStep("configuring directory to start on boot")
    /\ spc = "none"
    /\ store' = backup_state(store, "enabled", BoolStr(svc_enabled))
    /\ backupLog' = backup_order(store, backupLog, "enabled")
    /\ firstBackup' = note_first(firstBackup, "enabled", BoolStr(svc_enabled))
    /\ lastBackup' = [lastBackup EXCEPT !["enabled"] = BoolStr(svc_enabled)]
    /\ spc' = "recorded"
    /\ UNCHANGED << objVars, runVars, hostVars, svcVars, replVars, uninstVars,
                    enabled_preinstall, ldapVars, pwOutcome, toolLog >>

\* DsInstance.__enable, second part: disable()
enable_step ==
    /\ InStep("configuring directory to start on boot")
    /\ spc = "recorded"
    /\ spc' = "none"
    /\ svc_enabled' = FALSE
    /\ StepReturns
    /\ UNCHANGED << objRest, running, connected, instance_exists, etc_dirsrv,
                    sstore_rest, security,
                    storeVars, svcVars, replVars, uninstVars, histVars,
                    enabled_preinstall, ldapVars, pwOutcome, toolLog >>

\* ------------------------------------------------------------------- TLS
\* DsInstance.__enable_ssl and DsInstance.__get_ds_cert: obtain the server
\* certificate, then switch nsslapd-security on
configure_tls ==
    /\ \/ InStep("configuring TLS for DS instance")
       \/ InStep("retrieving DS Certificate")
    /\ \/ /\ security' = TRUE
          /\ StepReturns
       \/ /\ UNCHANGED security
          /\ StepRaises("RuntimeError")
    /\ UNCHANGED << objRest, running, connected, svc_enabled,
                    instance_exists, etc_dirsrv, sstore_rest,
                    storeVars, svcVars, replVars, otherVars >>

\* ---------------------------------------------------- replication set-up
\* __setup_replica, first part: enable_replication_version_checking and the
\* external bind to the local server
setup_replica_connect ==
    /\ InStep("setting up initial replication")
    /\ rsub = "none"
    /\ \/ /\ netCalls' = << "enable_replication_version_checking", "external_bind" >>
          /\ rsub' = "bound"
          /\ UNCHANGED << steps, runVars >>
       \/ /\ netCalls' = << "enable_replication_version_checking" >>
          /\ rsub' = "failed"
          /\ StepRaises("NetworkError")
       \/ /\ netCalls' = << "enable_replication_version_checking", "external_bind" >>
          /\ rsub' = "failed"
          /\ StepRaises("NetworkError")
    /\ UNCHANGED << objRest, hostVars, storeVars, svcVars, bind_dn, bind_pw,
                    fixup_report, joinError, join_args, flagSource, memberof, polls,
                    markerAt,
                    otherVars >>

\* variant: the join is made without a trust anchor
join_kwargs_no_cacert(binddn, bindpw, cacert) ==
    [r_binddn |-> binddn, r_bindpw |-> bindpw, cacert |-> None]

\* setup_promote_replication(master_fqdn, r_binddn=bind_dn, r_bindpw=bind_pw,
\* cacert=self.ca_file)
join_kwargs(binddn, bindpw, cacert) ==
    [r_binddn |-> binddn, r_bindpw |-> bindpw, cacert |-> cacert]

\* the (r_binddn, r_bindpw) pair __setup_replica chooses
bind_credentials(pw, prom) ==
    IF pw # None /\ ~prom
      THEN [dn |-> DirectoryManagerDN, pw |-> pw]
      ELSE [dn |-> None, pw |-> None]

\* __setup_replica, second part: choose the bind credentials
setup_replica_select ==
    /\ InStep("setting up initial replication")
    /\ rsub = "bound"
    /\ bind_dn' = bind_credentials(dm_password, promote).dn
    /\ bind_pw' = bind_credentials(dm_password, promote).pw
    /\ rsub' = "selected"
    /\ UNCHANGED << objVars, runVars, hostVars, storeVars, svcVars, netCalls,
                    fixup_report, joinError, join_args, flagSource, memberof, polls,
                    markerAt,
                    otherVars >>

\* the errors the join call can end with
JoinErrors == {"NetworkError", "AuthenticationError"}

\* variant: the answer of needs_memberof_fixup() is not stored in the flag
setup_replica_join_flag_kept ==
    /\ InStep("setting up initial replication")
    /\ rsub = "selected"
    /\ netCalls' = Append(netCalls, "setup_promote_replication")
    /\ join_args' = join_kwargs(bind_dn, bind_pw, ca_file)
    /\ \/ \E report \in BOOLEAN :
             /\ fixup_report' = BoolStr(report)
             /\ rsub' = "joined"
             /\ StepReturns
             /\ UNCHANGED joinError
       \/ \E err \in JoinErrors :
             /\ rsub' = "failed"
             /\ joinError' = err
             /\ StepRaises(err)
             /\ UNCHANGED fixup_report
    /\ UNCHANGED << dm_password, promote, pkcs12_info, ca_file, run_init_memberof,
                    flagSource, hostVars, storeVars, svcVars, bind_dn, bind_pw,
                    memberof, polls, markerAt, otherVars >>

\* variant: a failed join is issued a second time
setup_replica_join_retry ==
    /\ InStep("setting up initial replication")
    /\ rsub = "selected"
    /\ netCalls' = Append(netCalls, "setup_promote_replication")
    /\ join_args' = join_kwargs(bind_dn, bind_pw, ca_file)
    /\ \/ \E report \in BOOLEAN :
             /\ fixup_report' = BoolStr(report)
             /\ run_init_memberof' = report
             /\ flagSource' = "join"
             /\ rsub' = "joined"
             /\ StepReturns
             /\ UNCHANGED joinError
       \/ \E err \in JoinErrors :
             /\ joinError' = err
             /\ UNCHANGED << fixup_report, run_init_memberof, flagSource >>
             /\ IF joinError = None
                  THEN UNCHANGED << rsub, steps, runVars >>
                  ELSE rsub' = "failed" /\ StepRaises(err)
    /\ UNCHANGED << dm_password, promote, pkcs12_info, ca_file, hostVars, storeVars,
                    svcVars, bind_dn, bind_pw, memberof, polls, markerAt,
                    otherVars >>

\* variant: an error of the join is swallowed and the method returns
setup_replica_join_swallow ==
    /\ InStep("setting up initial replication")
    /\ rsub = "selected"
    /\ netCalls' = Append(netCalls, "setup_promote_replication")
    /\ join_args' = join_kwargs(bind_dn, bind_pw, ca_file)
    /\ \/ \E report \in BOOLEAN :
             /\ fixup_report' = BoolStr(report)
             /\ run_init_memberof' = report
             /\ flagSource' = "join"
             /\ rsub' = "joined"
             /\ StepReturns
             /\ UNCHANGED joinError
       \/ \E err \in JoinErrors :
             /\ rsub' = "joined"
             /\ joinError' = err
             /\ StepReturns
             /\ UNCHANGED << fixup_report, run_init_memberof, flagSource >>
    /\ UNCHANGED << dm_password, promote, pkcs12_info, ca_file, hostVars, storeVars,
                    svcVars, bind_dn, bind_pw, memberof, polls, markerAt,
                    otherVars >>

\* __setup_replica, last part: setup_promote_replication against the master,
\* then run_init_memberof = repl.needs_memberof_fixup(); an error of the join
\* leaves the method as it is
setup_replica_join ==
    /\ InStep("setting up initial replication")
    /\ rsub = "selected"
    /\ netCalls' = Append(netCalls, "setup_promote_replication")
    /\ join_args' = join_kwargs(bind_dn, bind_pw, ca_file)
    /\ \/ \E report \in BOOLEAN :
             /\ fixup_report' = BoolStr(report)
             /\ run_init_memberof' = report
             /\ flagSource' = "join"
             /\ rsub' = "joined"
             /\ StepReturns
             /\ UNCHANGED joinError
       \/ \E err \in JoinErrors :
             /\ rsub' = "failed"
             /\ joinError' = err
             /\ StepRaises(err)
             /\ UNCHANGED << fixup_report, run_init_memberof, flagSource >>
    /\ UNCHANGED << dm_password, promote, pkcs12_info, ca_file, hostVars, storeVars,
                    svcVars, bind_dn, bind_pw, memberof, polls, markerAt,
                    otherVars >>

\* ---------------------------------------------------------- memberof task
\* variant: the task is run whatever the flag says
init_memberof_always ==
    /\ InStep("initializing group membership")
    /\ memberof = "none"
    /\ \/ \E n \in 1..(PollUpperBound + 1) :
             /\ memberof' = "waiting"
             /\ markerAt' = n
             /\ polls' = 0
             /\ UNCHANGED << steps, runVars >>
       \/ /\ memberof' = "failed"
          /\ StepRaises("CalledProcessError")
          /\ UNCHANGED << polls, markerAt >>
    /\ UNCHANGED << objRest, hostVars, storeVars, svcVars, rsub, bind_dn,
                    bind_pw, netCalls, fixup_report, joinError, join_args, flagSource,
                    otherVars >>

\* variant: the step returns as soon as the task entry is added, without
\* waiting for the task
init_memberof_no_wait ==
    /\ InStep("initializing group membership")
    /\ memberof = "none"
    /\ IF ~run_init_memberof
         THEN /\ memberof' = "skipped"
              /\ UNCHANGED << polls, markerAt >>
         ELSE \E n \in 1..(PollUpperBound + 1) :
                 /\ memberof' = "waiting"
                 /\ markerAt' = n
                 /\ polls' = 0
    /\ StepReturns
    /\ UNCHANGED << objRest, hostVars, storeVars, svcVars, rsub, bind_dn,
                    bind_pw, netCalls, fixup_report, joinError, join_args, flagSource,
                    otherVars >>

\* DsInstance.init_memberof up to the wait: return at once when the flag is
\* off, else add the task entry and bind
init_memberof ==
    /\ InStep("initializing group membership")
    /\ memberof = "none"
    /\ IF ~run_init_memberof
         THEN /\ memberof' = "skipped"
              /\ StepReturns
              /\ UNCHANGED << polls, markerAt >>
         ELSE \/ \E n \in 1..(PollUpperBound + 1) :
                    /\ memberof' = "waiting"
                    /\ markerAt' = n
                    /\ polls' = 0
                    /\ UNCHANGED << steps, runVars >>
              \/ /\ memberof' = "failed"
                 /\ StepRaises("CalledProcessError")
                 /\ UNCHANGED << polls, markerAt >>
    /\ UNCHANGED << objRest, hostVars, storeVars, svcVars, rsub, bind_dn,
                    bind_pw, netCalls, fixup_report, joinError, join_args, flagSource,
                    otherVars >>

\* variant: the wait has no upper bound, it polls until the marker appears
wait_for_task_unbounded ==
    /\ InStep("initializing group membership")
    /\ memberof = "waiting"
    /\ polls' = polls + 1
    /\ IF polls + 1 = markerAt
         THEN /\ memberof' = "completed"
              /\ StepReturns
         ELSE /\ UNCHANGED << memberof, steps, runVars >>
    /\ UNCHANGED << objRest, hostVars, storeVars, svcVars, rsub, bind_dn,
                    bind_pw, netCalls, fixup_report, joinError, join_args, flagSource, markerAt,
                    otherVars >>

\* replication.wait_for_task: one poll of the task entry
wait_for_task ==
    /\ InStep("initializing group membership")
    /\ memberof = "waiting"
    /\ polls' = polls + 1
    /\ IF polls + 1 = markerAt
         THEN /\ memberof' = "completed"
              /\ StepReturns
         ELSE IF polls + 1 >= PollUpperBound
         THEN /\ memberof' = "timeout"
              /\ StepRaises("ConsistencyTimeoutError")
         ELSE /\ UNCHANGED << memberof, steps, runVars >>
    /\ UNCHANGED << objRest, hostVars, storeVars, svcVars, rsub, bind_dn,
                    bind_pw, netCalls, fixup_report, joinError, join_args, flagSource, markerAt,
                    otherVars >>

\* -------------------------------------------------------------- uninstall
\* variant: the list is returned in the order of os.listdir
get_ds_instances_unsorted(listing) ==
    LET kept == SelectSeq(listing,
                   LAMBDA e : /\ e[4]
                              /\ e[1] = DS_INSTANCE_PREFIX
                              /\ e[3] # ".removed"
                              /\ e[2] # "")
    IN [i \in 1..Len(kept) |-> kept[i][2]]

\* get_ds_instances(): directories with the prefix, not ending in
\* ".removed", with a non-empty instance name, sorted
get_ds_instances(listing) ==
    LET kept == SelectSeq(listing,
                   LAMBDA e : /\ e[4]
                              /\ e[1] = DS_INSTANCE_PREFIX
                              /\ e[3] # ".removed"
                              /\ e[2] # "")
        instances == [i \in 1..Len(kept) |-> kept[i][2]]
    IN SortSeq(instances, LAMBDA a, b : Rank(a) < Rank(b))

\* variant: a failed unforced removal is reported without a forced retry
remove_ds_instance_no_retry(force, toolOk) ==
    LET call == << "remove-ds.pl", IF force THEN "-f" ELSE "" >>
        run == << "remove-ds.pl", IF force THEN "-f" ELSE "", Head(toolOk) >>
    IN [calls |-> << call >>, runs |-> << run >>, raised |-> ~Head(toolOk)]

\* remove_ds_instance(serverid, force): toolOk holds the exit results of the
\* successive remove-ds.pl runs
RECURSIVE remove_ds_instance(_, _)
remove_ds_instance(force, toolOk) ==
    LET call == << "remove-ds.pl", IF force THEN "-f" ELSE "" >>
        run == << "remove-ds.pl", IF force THEN "-f" ELSE "", Head(toolOk) >>
    IN
    IF Head(toolOk)
      THEN [calls |-> << call >>, runs |-> << run >>, raised |-> FALSE]
      ELSE IF force
        THEN [calls |-> << call >>, runs |-> << run >>, raised |-> TRUE]
        ELSE LET r == remove_ds_instance(TRUE, Tail(toolOk)) IN
             [calls |-> << call >> \o r.calls,
              runs |-> << run >> \o r.runs,
              raised |-> r.raised]

\* exit results of the remove-ds.pl runs: first run, forced run
ToolResults == { << TRUE >>, << FALSE, TRUE >>, << FALSE, FALSE >> }

FileFailures == {"none", "LIMITS_CONF", "SYSCONFIG_DIRSRV"}

\* the fstore.restore_file calls of uninstall, up to the first ValueError
restore_files(fileFail) ==
    IF fileFail = "LIMITS_CONF"
      THEN << << "restore_file", "LIMITS_CONF" >> >>
      ELSE << << "restore_file", "LIMITS_CONF" >>,
              << "restore_file", "SYSCONFIG_DIRSRV" >> >>

\* variant: the block runs without looking at the serverid it was given
remove_instance_unchecked(serverid, toolOk) ==
    LET rm == remove_ds_instance(FALSE, toolOk) IN
    << << "untrack_server_cert", serverid >> >>
    \o rm.calls
    \o (IF rm.raised THEN << >>
        ELSE << << "remove_keytab", "DS_KEYTAB" >>,
                << "remove_ccache", "DS_USER" >> >>)

\* the block of uninstall guarded by "serverid is not None"
remove_instance(serverid, toolOk) ==
    IF serverid = None THEN << >>
    ELSE LET rm == remove_ds_instance(FALSE, toolOk) IN
         << << "untrack_server_cert", serverid >> >>
         \o rm.calls
         \o (IF rm.raised THEN << >>
             ELSE << << "remove_keytab", "DS_KEYTAB" >>,
                     << "remove_ccache", "DS_USER" >> >>)

\* what uninstall leaves of the run that came before
forget_run ==
    /\ scenario' = "none"
    /\ steps' = << >>
    /\ declared' = << >>
    /\ status' = "idle"
    /\ idx' = 0
    /\ cur' = 0
    /\ trace' = << >>
    /\ failedLabel' = None
    /\ failedCause' = None
    /\ runtime' = 0
    /\ overrun' = FALSE
    /\ svcLog' = << >>
    /\ lastRestart' = "none"
    /\ rsub' = "none"
    /\ bind_dn' = None
    /\ bind_pw' = None
    /\ netCalls' = << >>
    /\ fixup_report' = "unset"
    /\ joinError' = None
    /\ join_args' = NoJoin
    /\ memberof' = "none"
    /\ polls' = 0
    /\ markerAt' = 0
    /\ toolLog' = << >>
    /\ pwOutcome' = "none"

Range(seq) == {seq[i] : i \in 1..Len(seq)}

\* variant: the service is enabled whatever was recorded
reenable_always(enabled) == TRUE

\* "if enabled: self.enable()" on the value restore_state("enabled") returned
reenable(enabled) == enabled = "True"

\* DsInstance.uninstall up to the re-enable: restore the given keys, restore
\* the two files, re-enable the service if the recorded setting was enabled
uninstall_begin(keys) ==
    /\ status # "running"
    /\ upc \in {"none", "returned"}
    /\ \E fileFail \in FileFailures :
          /\ uninstallLog' =
                [i \in 1..Len(keys) |-> << "restore_state", keys[i] >>]
                \o restore_files(fileFail)
                \o (IF reenable(restored_value(store, "enabled"))
                      THEN << << "enable", "dirsrv" >> >> ELSE << >>)
          /\ cleanupErrors' = IF fileFail = "none" THEN {}
                              ELSE {<< "restore_file", fileFail >>}
    /\ restored' = [k \in StateKeys |->
                      IF k \in Range(keys) THEN restored_value(store, k) ELSE None]
    /\ store' = restore_states(StateFile(store, sstore_rest),
                               service_name, keys)[service_name]
    /\ sstore_rest' = others_after_restore(store, sstore_rest, keys)
    /\ backupLog' = SelectSeq(backupLog, LAMBDA k : k \notin Range(keys))
    /\ firstBackup' = [k \in StateKeys |->
                         IF k \in Range(keys) THEN Absent ELSE firstBackup[k]]
    /\ svc_enabled' = IF reenable(restored_value(store, "enabled"))
                        THEN TRUE ELSE svc_enabled
    /\ recorded' = backupLog
    /\ upc' = "serverid"
    /\ todo' = << >>
    /\ forget_run
    /\ UNCHANGED << objRest, running, connected, instance_exists, etc_dirsrv,
                    security, flagSource, lastBackup, enabled_preinstall, ldapVars, spc >>

\* a variant that consumes "serverid" before "enabled"
uninstall_serverid_first == uninstall_begin(<< "serverid", "enabled", "running" >>)

\* DsInstance.uninstall, first part: "enabled", then "running"
uninstall == uninstall_begin(<< "enabled", "running" >>)

\* DsInstance.uninstall, second part: restore "serverid" and, when there is
\* one, stop tracking the certificate and remove instance, keytab and ccache
uninstall_serverid ==
    /\ upc = "serverid"
    /\ \E toolOk \in ToolResults :
          LET serverid == restored_value(store, "serverid")
              rm == remove_ds_instance(FALSE, toolOk)
              removed == serverid # None /\ ~rm.raised
          IN
          /\ uninstallLog' = uninstallLog
                             \o << << "restore_state", "serverid" >> >>
                             \o remove_instance(serverid, toolOk)
          /\ cleanupErrors' = cleanupErrors \cup
                (IF serverid # None /\ rm.raised
                   THEN {<< "remove_ds_instance", serverid >>} ELSE {})
          /\ instance_exists' = (instance_exists /\ ~removed)
          /\ etc_dirsrv' = IF removed THEN remove_dir(etc_dirsrv, serverid)
                            ELSE etc_dirsrv
          /\ running' = (running /\ ~removed)
          /\ toolLog' = IF serverid = None THEN << >> ELSE rm.runs
    /\ restored' = [restored EXCEPT !["serverid"] = restored_value(store, "serverid")]
    /\ store' = restore_states(StateFile(store, sstore_rest),
                               service_name, << "serverid" >>)[service_name]
    /\ sstore_rest' = others_after_restore(store, sstore_rest, << "serverid" >>)
    /\ backupLog' = restore_order(backupLog, "serverid")
    /\ firstBackup' = [firstBackup EXCEPT !["serverid"] = Absent]
    /\ lastBackup' = [k \in StateKeys |-> Absent]
    /\ upc' = "rest"
    /\ UNCHANGED << objVars, runVars, connected, svc_enabled, security, svcVars,
                    replVars, recorded, todo, enabled_preinstall, ldapVars, pwOutcome, spc >>

RestKeys == << "user_exists", "nsslapd-port", "nsslapd-security",
               "nsslapd-ldapiautobind" >>

\* variant: without a serverid record uninstall returns after the guarded block
uninstall_rest_needs_serverid ==
    /\ upc = "rest"
    /\ LET keys == IF restored["serverid"] = None THEN << >> ELSE RestKeys
           insts == IF restored["serverid"] = None
                      THEN << >> ELSE get_ds_instances(etc_dirsrv)
       IN
       /\ uninstallLog' = uninstallLog
                          \o [i \in 1..Len(keys) |-> << "restore_state", keys[i] >>]
       /\ restored' = [k \in StateKeys |->
                         IF k \in Range(keys)
                           THEN restored_value(store, k) ELSE restored[k]]
       /\ store' = restore_states(StateFile(store, sstore_rest),
                                  service_name, keys)[service_name]
       /\ sstore_rest' = others_after_restore(store, sstore_rest, keys)
       /\ backupLog' = SelectSeq(backupLog, LAMBDA k : k \notin Range(keys))
       /\ firstBackup' = [k \in StateKeys |->
                            IF k \in Range(keys) THEN Absent ELSE firstBackup[k]]
       /\ todo' = insts
       /\ upc' = IF insts = << >> THEN "returned" ELSE "restarting"
    /\ UNCHANGED << objVars, runVars, running, connected, svc_enabled,
                    instance_exists, etc_dirsrv, security, svcVars, replVars,
                    recorded, cleanupErrors, lastBackup, enabled_preinstall, ldapVars,
                    pwOutcome, toolLog, spc >>

\* DsInstance.uninstall, third part: restore the remaining keys and list the
\* instances left on the host
uninstall_rest ==
    /\ upc = "rest"
    /\ uninstallLog' = uninstallLog
                       \o [i \in 1..Len(RestKeys) |-> << "restore_state", RestKeys[i] >>]
    /\ restored' = [k \in StateKeys |->
                      IF k \in Range(RestKeys)
                        THEN restored_value(store, k) ELSE restored[k]]
    /\ store' = restore_states(StateFile(store, sstore_rest),
                               service_name, RestKeys)[service_name]
    /\ sstore_rest' = others_after_restore(store, sstore_rest, RestKeys)
    /\ backupLog' = SelectSeq(backupLog,
                       LAMBDA k : k \notin Range(RestKeys))
    /\ firstBackup' = [k \in StateKeys |->
                         IF k \in Range(RestKeys)
                           THEN Absent ELSE firstBackup[k]]
    /\ todo' = get_ds_instances(etc_dirsrv)
    /\ upc' = IF get_ds_instances(etc_dirsrv) = << >>
                THEN "returned" ELSE "restarting"
    /\ UNCHANGED << objVars, runVars, running, connected, svc_enabled,
                    instance_exists, etc_dirsrv, security, svcVars, replVars,
                    recorded, cleanupErrors, lastBackup, enabled_preinstall, ldapVars,
                    pwOutcome, toolLog, spc >>

\* variant: the first restart that fails ends the loop
uninstall_restart_abort ==
    /\ upc = "restarting"
    /\ uninstallLog' = Append(uninstallLog, << "restart", Head(todo) >>)
    /\ \/ /\ running' = IF Head(todo) = ServerId THEN TRUE ELSE running
          /\ todo' = Tail(todo)
          /\ upc' = IF Tail(todo) = << >> THEN "returned" ELSE "restarting"
          /\ UNCHANGED cleanupErrors
       \/ /\ cleanupErrors' = cleanupErrors \cup {<< "restart", Head(todo) >>}
          /\ todo' = << >>
          /\ upc' = "returned"
          /\ UNCHANGED running
    /\ UNCHANGED << objVars, runVars, connected, svc_enabled, instance_exists, etc_dirsrv,
                    sstore_rest, security, storeVars, svcVars, replVars, recorded, restored,
                    histVars, enabled_preinstall, ldapVars, pwOutcome, toolLog, spc >>

\* DsInstance.uninstall, the loop over get_ds_instances(): one restart
uninstall_restart ==
    /\ upc = "restarting"
    /\ uninstallLog' = Append(uninstallLog, << "restart", Head(todo) >>)
    /\ todo' = Tail(todo)
    /\ upc' = IF Tail(todo) = << >> THEN "returned" ELSE "restarting"
    /\ \/ /\ running' = IF Head(todo) = ServerId THEN TRUE ELSE running
          /\ UNCHANGED cleanupErrors
       \/ /\ cleanupErrors' = cleanupErrors \cup {<< "restart", Head(todo) >>}
          /\ UNCHANGED running
    /\ UNCHANGED << objVars, runVars, connected, svc_enabled, instance_exists, etc_dirsrv,
                    sstore_rest, security, storeVars, svcVars, replVars, recorded, restored,
                    histVars, enabled_preinstall, ldapVars, pwOutcome, toolLog, spc >>

\* ---------------------------------------------------- admin password
\* DsInstance.change_admin_password, called by the installer once
\* create_instance has finished: run ldappasswd; its CalledProcessError is
\* caught, printed and logged, and the method returns
change_admin_password ==
    /\ status = "done"
    /\ scenario = "create_instance"
    /\ upc = "none"
    /\ pwOutcome = "none"
    /\ \E ok \in BOOLEAN :
          toolLog' = Append(toolLog, << "ldappasswd", "", ok >>)
    /\ pwOutcome' = "returned"
    /\ UNCHANGED << objVars, runVars, hostVars, storeVars, svcVars, replVars,
                    uninstVars, histVars, enabled_preinstall, ldapVars, spc >>

\* ---------------------------------------------------------- entry points
\* DsInstance.create_instance, called with ca_file left at its default
create_instance ==
    /\ status # "running"
    /\ upc \in {"none", "returned"}
    /\ \E pw \in Passwords, p12 \in BOOLEAN, hbac_allow \in BOOLEAN :
          /\ dm_password' = pw
          /\ pkcs12_info' = p12
          /\ ca_file' = None
          /\ start_creation("create_instance",
                            steps \o create_instance_steps(hbac_allow), 60)
    /\ UNCHANGED << promote, run_init_memberof, hostVars, storeVars >>

\* DsInstance.enable_ssl
enable_ssl ==
    /\ status # "running"
    /\ upc \in {"none", "returned"}
    /\ start_creation("enable_ssl", enable_ssl_steps, 10)
    /\ UNCHANGED << objRest, hostVars, storeVars >>

\* the ca_file arguments callers pass: none, or the path of a CA file
CaFiles == {None, "/etc/ipa/ca.crt"}

\* DsInstance.create_replica called with a ca_file of cas
create_replica_with(cas) ==
    /\ status # "running"
    /\ upc \in {"none", "returned"}
    /\ \E pw \in Passwords, p12 \in BOOLEAN, prom \in BOOLEAN, ca \in cas :
          /\ dm_password' = pw
          /\ pkcs12_info' = p12
          /\ ca_file' = ca
          /\ promote' = prom
          /\ start_creation("create_replica",
                            steps \o create_replica_steps(prom, p12), 60)
    /\ UNCHANGED << run_init_memberof, hostVars, storeVars >>

\* DsInstance.create_replica, called with ca_file left at its default
create_replica == create_replica_with({None})

\* DsInstance.create_replica, called with or without a ca_file
create_replica_ca_file == create_replica_with(CaFiles)

Next ==
    \/ create_instance
    \/ enable_ssl
    \/ create_replica
    \/ StartStep
    \/ payload_step
    \/ create_instance_backup
    \/ create_instance_step
    \/ stop_instance
    \/ start_instance
    \/ restart_instance
    \/ configure_tls
    \/ setup_replica_connect
    \/ setup_replica_select
    \/ setup_replica_join
    \/ init_memberof
    \/ wait_for_task
    \/ tuning
    \/ enable_backup
    \/ enable_step
    \/ uninstall
    \/ uninstall_serverid
    \/ uninstall_rest
    \/ uninstall_restart
    \/ change_admin_password

Spec == Init /\ [][Next]_vars
\* ===================================================================
\* Properties
\* ===================================================================
\* the events of a run whose first k steps returned
ExpectedTrace(k) ==
    [j \in 1..(2 * k) |->
        << IF j % 2 = 1 THEN "start" ELSE "return", (j + 1) \div 2 >>]

\* the step with this label returned in the current run
Returned(label) ==
    \E j \in 1..Len(trace) :
        /\ trace[j][1] = "return"
        /\ declared[trace[j][2]] = label

\* every list an entry point can hand to the runner
BuiltLists ==
    {create_instance_steps(h) : h \in BOOLEAN}
    \cup {enable_ssl_steps}
    \cup {create_replica_steps(p, k) : p \in BOOLEAN, k \in BOOLEAN}

\* C1 (fail-fast): when a run has failed, the steps before the failing one
\* each started and returned once, in order, the failing step was started and
\* raised, nothing was started after it, and the caller holds the failing
\* step's label and its error; a failure of setup-ds.pl is such a failure, so
\* the instance-creation step never returns without the instance.
FailFast ==
    /\ status = "failed" =>
          /\ idx + 1 <= Len(declared)
          /\ trace = ExpectedTrace(idx)
                     \o << << "start", idx + 1 >>, << "raise", idx + 1 >> >>
          /\ failedLabel = declared[idx + 1]
          /\ failedCause # None
    /\ status # "failed" =>
          /\ \A j \in 1..Len(trace) : trace[j][1] # "raise"
          /\ failedLabel = None
    /\ Returned("creating directory server instance") => instance_exists

\* C1 witness: setup-ds.pl failed in the second step of a longer list
FailFastWitness ==
    /\ status = "failed"
    /\ failedLabel = "creating directory server instance"
    /\ failedCause = "RuntimeError"
    /\ idx = 1
    /\ Len(declared) > 2

\* C2 (declaration order): the list run is one an entry point built; step
\* i+1 starts only after step i returned, no step is skipped, repeated or
\* reordered, at most one step is executing, and the work of a step that
\* takes several actions happens only while that step is the executing one.
DeclarationOrder ==
    /\ declared \in BuiltLists \cup {<< >>}
    /\ Len(trace) <= 2 * Len(declared)
    /\ \A j \in 1..Len(trace) :
          /\ trace[j][2] = (j + 1) \div 2
          /\ trace[j][1] = IF j % 2 = 1 THEN "start"
                           ELSE IF j = Len(trace) /\ status = "failed" THEN "raise"
                           ELSE "return"
    /\ cur = IF Len(trace) % 2 = 1 THEN (Len(trace) + 1) \div 2 ELSE 0
    /\ idx = IF status = "failed" THEN (Len(trace) \div 2) - 1 ELSE Len(trace) \div 2
    /\ status = "done" => trace = ExpectedTrace(Len(declared))
    /\ status = "running" => steps = declared
    /\ memberof = "waiting" =>
          cur # 0 /\ declared[cur] = "initializing group membership"
    /\ rsub \in {"bound", "selected"} =>
          cur # 0 /\ declared[cur] = "setting up initial replication"

\* C2 witness: a promoted replica's whole list has run, the memberof task
\* having been waited for
DeclarationOrderWitness ==
    /\ status = "done"
    /\ scenario = "create_replica"
    /\ promote
    /\ memberof = "completed"
    /\ Len(trace) = 2 * Len(create_replica_steps(TRUE, FALSE))
Reverse(seq) == [i \in 1..Len(seq) |-> seq[Len(seq) + 1 - i]]

\* C3 (first write wins): the store holds, for every key, the value of the
\* first backup_state call since the key was last restored, whatever later
\* calls passed; for "enabled" that is the setting the host had before the
\* installation touched it, and it is what uninstall gets back.
FirstWriteWins ==
    /\ \A k \in StateKeys : store[k] = firstBackup[k]
    /\ store["enabled"] # Absent => store["enabled"] = BoolStr(enabled_preinstall)
    /\ restored["enabled"] # None => restored["enabled"] = BoolStr(enabled_preinstall)

\* C3 witness: "enabled" was backed up as True, the step ran again and passed
\* False, and uninstall got True back
FirstWriteWinsWitness ==
    /\ upc = "serverid"
    /\ restored["enabled"] = "True"
    /\ lastBackup["enabled"] = "False"

\* the keys uninstall restored that had a record, in the order of the calls
RestoredKeys ==
    LET calls == SelectSeq(uninstallLog,
                    LAMBDA e : e[1] = "restore_state" /\ restored[e[2]] # None)
    IN [i \in 1..Len(calls) |-> calls[i][2]]

EveryCleanupAttempted ==
    upc = "returned" =>
       /\ \A k \in StateKeys : << "restore_state", k >> \in Range(uninstallLog)
       /\ << "restore_file", "LIMITS_CONF" >> \in Range(uninstallLog)
       /\ << "restore_file", "SYSCONFIG_DIRSRV" >> \in Range(uninstallLog)
       /\ restored["serverid"] # None =>
             /\ << "untrack_server_cert", restored["serverid"] >> \in Range(uninstallLog)
             /\ << "remove-ds.pl", "" >> \in Range(uninstallLog)
             /\ << "remove_keytab", "DS_KEYTAB" >> \in Range(uninstallLog)
             /\ << "remove_ccache", "DS_USER" >> \in Range(uninstallLog)

\* C6 (precondition at the floor level): a replica set-up at the floor
\* level (promote off) without an administrative secret makes no network
\* call and ends the step with a PreconditionError.
PreconditionBeforeNetwork ==
    (scenario = "create_replica" /\ ~promote /\ dm_password = None) =>
       /\ netCalls = << >>
       /\ rsub = "none"
       /\ ~Returned("setting up initial replication")
       /\ failedLabel = "setting up initial replication" =>
             failedCause = "PreconditionError"

\* C7 (bind mode by domain level): whenever credentials have been chosen for
\* the join, they are the Directory Manager DN and the administrative secret
\* at the floor level and absent at every higher level.
BindModeByDomainLevel ==
    rsub \in {"selected", "joined"} =>
       IF promote
         THEN bind_dn = None /\ bind_pw = None
         ELSE bind_dn = DirectoryManagerDN /\ bind_pw = DMPassword

\* C8 (consistency-check gating): init_memberof returns without adding the
\* task or polling exactly when the join reported that no repair is needed;
\* otherwise it returns only once a poll saw the completion marker, after
\* exactly as many polls as the marker took to appear.
ConsistencyCheckGating ==
    /\ memberof = "skipped" => polls = 0 /\ markerAt = 0
    /\ memberof = "completed" => polls = markerAt /\ polls >= 1
    /\ memberof \in {"waiting", "timeout"} => polls < markerAt
    /\ Returned("initializing group membership") =>
          memberof \in {"skipped", "completed"}
    /\ (scenario = "create_replica" /\ memberof # "none") =>
          /\ fixup_report = "False" => memberof = "skipped"
          /\ fixup_report = "True" => memberof # "skipped"

\* C8 witness: the join reported a repair, the marker appeared at the last
\* poll the bound allows, and the step returned after that many polls
ConsistencyCheckGatingWitness ==
    /\ scenario = "create_replica"
    /\ fixup_report = "True"
    /\ Returned("initializing group membership")
    /\ memberof = "completed"
    /\ polls = PollUpperBound

\* C9 as stated: whenever init_memberof consults the flag, the flag's value
\* came from a join.
FlagAlwaysFromJoin ==
    memberof # "none" => flagSource = "join"

\* C9 as amended: in a create_replica run the flag init_memberof consults is
\* the answer needs_memberof_fixup() gave in that run's replication step.
FlagFromJoinInReplica ==
    (scenario = "create_replica" /\ memberof # "none") =>
       /\ fixup_report # "unset"
       /\ flagSource = "join"
       /\ run_init_memberof = (fixup_report = "True")

\* C9 witness: the join answered that no repair is needed and init_memberof
\* consulted the flag
FlagFromJoinInReplicaWitness ==
    /\ scenario = "create_replica"
    /\ fixup_report = "False"
    /\ memberof = "skipped"

\* C10 (restart failure is fatal): when the restart call failed or the server
\* was found not running, the run has failed.
RestartFailureRaises ==
    lastRestart \in {"call_failed", "not_running"} => status = "failed"

\* position of a call in the log of a lifecycle operation, 0 when absent
CallIndex(log, call) ==
    IF \E i \in 1..Len(log) : log[i] = call
      THEN CHOOSE i \in 1..Len(log) : log[i] = call
      ELSE 0

\* C11 as stated: a restart that went through made its calls in the order
\* disconnect, stop and start, reconnect, running-check.
RestartVerifiesAfterReconnect ==
    lastRestart \in {"ok", "not_running"} =>
       /\ CallIndex(svcLog, "connect") # 0
       /\ CallIndex(svcLog, "connect") < CallIndex(svcLog, "is_ds_running")

\* C11 as amended: restart closes the session first, then restarts the
\* service, makes the running-check only when the restart call returned, and
\* reopens the session last; the running-check precedes the reconnect and the
\* session is closed from before the service restart until after it.
RestartOrder ==
    lastRestart # "none" =>
       /\ Len(svcLog) >= 2
       /\ svcLog[1] = "disconnect"
       /\ svcLog[2] = "restart"
       /\ \A i \in 1..Len(svcLog) :
             svcLog[i] = "connect" => i = Len(svcLog) /\ i > 2
       /\ \A i \in 1..Len(svcLog) : svcLog[i] = "is_ds_running" => i = 3
       /\ lastRestart \in {"ok", "not_running"} =>
             svcLog = << "disconnect", "restart", "is_ds_running", "connect" >>
       /\ lastRestart = "call_failed" =>
             svcLog = << "disconnect", "restart", "connect" >>
       /\ lastRestart = "exit" => svcLog = << "disconnect", "restart" >>

\* C11 witness: a restart step whose service came back and whose session was
\* reopened after the running-check
RestartOrderWitness ==
    /\ lastRestart = "ok"
    /\ connected
    /\ Returned("restarting directory server")
    /\ svcLog = << "disconnect", "restart", "is_ds_running", "connect" >>

\* the runs of the removal tool made by the uninstall in progress
RemovalRuns == SelectSeq(toolLog, LAMBDA r : r[1] = "remove-ds.pl")

\* C12 (forced retry of instance removal): the removal tool runs at most
\* twice; the first run is unforced; a second run happens exactly when the
\* first failed and is forced; and the error reaches uninstall exactly when
\* the forced run failed too.
ForcedRetryOnce ==
    upc \in {"rest", "restarting", "returned"} =>
       /\ Len(RemovalRuns) <= 2
       /\ (restored["serverid"] # None) = (Len(RemovalRuns) >= 1)
       /\ Len(RemovalRuns) >= 1 =>
             /\ RemovalRuns[1][2] = ""
             /\ (Len(RemovalRuns) = 2) = (~RemovalRuns[1][3])
       /\ Len(RemovalRuns) = 2 => RemovalRuns[2][2] = "-f"
       /\ (\E e \in cleanupErrors : e[1] = "remove_ds_instance")
             = (Len(RemovalRuns) = 2 /\ ~RemovalRuns[2][3])

\* C12 witness: the unforced removal failed, the forced one succeeded, and
\* uninstall saw no error
ForcedRetryOnceWitness ==
    /\ upc = "rest"
    /\ toolLog = << << "remove-ds.pl", "", FALSE >>, << "remove-ds.pl", "-f", TRUE >> >>
    /\ ~instance_exists
    /\ \A e \in cleanupErrors : e[1] # "remove_ds_instance"

\* C13 (no rollback by the runner): when a run has failed, every record a
\* step of the run wrote is still in the store, the instance a completed
\* step of an installation created is still there, and no uninstall action
\* has been executed.
NoRollbackByRunner ==
    status = "failed" =>
       /\ \A k \in StateKeys : lastBackup[k] # Absent => store[k] # Absent
       /\ (scenario # "enable_ssl" /\ idx >= 1) => lastBackup["serverid"] = ServerId
       /\ (scenario # "enable_ssl" /\ idx >= 2) => instance_exists
       /\ upc = "none"
       /\ uninstallLog = << >>
       /\ \A k \in StateKeys : restored[k] = None

\* C13 witness: a run failed in a step after the instance was created, and
\* the serverid record and the instance are still there
NoRollbackByRunnerWitness ==
    /\ status = "failed"
    /\ idx >= 2
    /\ scenario = "create_instance"
    /\ failedLabel # "creating directory server instance"
    /\ store["serverid"] = ServerId
    /\ instance_exists
    /\ uninstallLog = << >>

\* the errors a step method can end with
StepErrors ==
    { "CalledProcessError", "RuntimeError", "NetworkError", "SystemExit",
      "ConsistencyTimeoutError" } \cup JoinErrors

\* C14 (advisory runtime budget): the budget is 60 for create_instance and
\* create_replica and 10 for enable_ssl; once the overrun is flagged the next
\* step still starts, a run fails only by a step raising one of its own
\* errors, and a run that ended without a raise ran its whole list in order.
AdvisoryBudget ==
    /\ status # "idle" =>
          runtime = IF scenario = "enable_ssl" THEN 10 ELSE 60
    /\ (status = "running" /\ cur = 0) => ENABLED StartStep
    /\ status = "failed" =>
          /\ trace[Len(trace)] = << "raise", idx + 1 >>
          /\ failedCause \in StepErrors
    /\ status = "done" => trace = ExpectedTrace(Len(declared))
    /\ (overrun /\ status = "running") => steps = declared

\* C14 witness: the overrun of the budget of 10 was flagged at the end of
\* an earlier step of enable_ssl and the last step is executing
AdvisoryBudgetWitness ==
    /\ scenario = "enable_ssl"
    /\ runtime = 10
    /\ overrun
    /\ status = "running"
    /\ cur = Len(enable_ssl_steps)

\* --------------------------------------------- uninstall over any store
\* the value a key holds when it is present in the store
StoredValues(k) ==
    IF k = "enabled" THEN {"True", "False"}
    ELSE IF k = "serverid" THEN {ServerId}
    ELSE IF k = "nsslapd-port" THEN {"389"}
    ELSE IF k \in {"nsslapd-security", "nsslapd-ldapiautobind"} THEN {"on"}
    ELSE {"True"}

\* a host as an earlier installation or upgrade, possibly of another process,
\* left it: any subset of the keys is in the store
UninstallInit ==
    /\ steps = << >>
    /\ dm_password = None
    /\ promote = FALSE
    /\ pkcs12_info = FALSE
    /\ ca_file = None
    /\ run_init_memberof = TRUE
    /\ scenario = "none"
    /\ declared = << >>
    /\ status = "idle"
    /\ idx = 0
    /\ cur = 0
    /\ trace = << >>
    /\ failedLabel = None
    /\ failedCause = None
    /\ runtime = 0
    /\ overrun = FALSE
    /\ running = FALSE
    /\ connected = FALSE
    /\ svc_enabled \in BOOLEAN
    /\ instance_exists \in BOOLEAN
    /\ \E others \in OtherListings :
          etc_dirsrv = IF instance_exists THEN add_dir(others, ServerId) ELSE others
    /\ sstore_rest = [m \in OtherModules |->
                        [k \in StateKeys |->
                            IF k \in {"enabled", "running"} THEN "True" ELSE Absent]]
    /\ security = FALSE
    /\ store \in [StateKeys -> {Absent, "True", "False", ServerId, "389", "on"}]
    /\ \A k \in StateKeys : store[k] \in {Absent} \cup StoredValues(k)
    /\ instance_exists => store["serverid"] # Absent
    /\ backupLog = SelectSeq(Reverse(RestoreOrder), LAMBDA k : store[k] # Absent)
    /\ svcLog = << >>
    /\ lastRestart = "none"
    /\ rsub = "none"
    /\ bind_dn = None
    /\ bind_pw = None
    /\ netCalls = << >>
    /\ fixup_report = "unset"
    /\ joinError = None
    /\ join_args = NoJoin
    /\ flagSource = "default"
    /\ memberof = "none"
    /\ polls = 0
    /\ markerAt = 0
    /\ upc = "none"
    /\ todo = << >>
    /\ recorded = << >>
    /\ uninstallLog = << >>
    /\ restored = [k \in StateKeys |-> None]
    /\ cleanupErrors = {}
    /\ firstBackup = store
    /\ lastBackup = [k \in StateKeys |-> Absent]
    /\ enabled_preinstall = IF store["enabled"] = Absent THEN svc_enabled
                             ELSE store["enabled"] = "True"
    /\ toolLog = << >>
    /\ spc = "none"
    /\ pwOutcome = "none"
    /\ DirectoryAtRest
    /\ CaCertAtRest
    /\ TlsAtRest

UninstallNext ==
    \/ uninstall
    \/ uninstall_serverid
    \/ uninstall_rest
    \/ uninstall_restart

UninstallSpec == UninstallInit /\ [][UninstallNext]_vars

\* the calls of uninstall that undo something
UndoCalls == {e \in Range(uninstallLog) : e[1] \notin {"restore_state", "restore_file", "restart"}}

\* C15 (unbacked keys): whatever subset of the seven keys the store holds,
\* uninstall can always take its next part, makes all seven restore_state
\* calls, records no error for a missing key, and undoes nothing for one:
\* without "enabled" the service is not re-enabled, without "serverid"
\* nothing is untracked or removed and no tool is run.
UnbackedKeysTolerated ==
    /\ upc = "serverid" => ENABLED uninstall_serverid
    /\ upc = "rest" => ENABLED uninstall_rest
    /\ upc = "restarting" => ENABLED uninstall_restart
    /\ \A e \in cleanupErrors : e[1] \in {"restore_file", "remove_ds_instance", "restart"}
    /\ upc = "returned" =>
          \A k \in StateKeys :
             /\ << "restore_state", k >> \in Range(uninstallLog)
             /\ store[k] = Absent
    /\ upc \in {"serverid", "rest", "restarting", "returned"} =>
          (restored["enabled"] # "True") = (<< "enable", "dirsrv" >> \notin UndoCalls)
    /\ upc \in {"rest", "restarting", "returned"} =>
          /\ restored["serverid"] = None => UndoCalls \subseteq {<< "enable", "dirsrv" >>}
          /\ restored["serverid"] = None => toolLog = << >>
          /\ restored["serverid"] # None =>
                << "untrack_server_cert", restored["serverid"] >> \in UndoCalls

\* C15 witness: an uninstall returned that found an upgrade's key but
\* neither "enabled" nor "serverid"
UnbackedKeysToleratedWitness ==
    /\ upc = "returned"
    /\ restored["nsslapd-port"] = "389"
    /\ restored["enabled"] = None
    /\ restored["serverid"] = None
    /\ restored["running"] = None
    /\ UndoCalls = {}

\* C16 (record before change): in every state of an installation run, at a
\* step boundary or inside a step, a run of setup-ds.pl finds the serverid
\* record already written, and a start-on-boot setting that differs from the
\* one the host had before installation finds the "enabled" record written.
RecordBeforeChange ==
    status \in {"running", "failed", "done"} =>
       /\ toolLog # << >> => store["serverid"] = ServerId
       /\ svc_enabled # enabled_preinstall => store["enabled"] = BoolStr(enabled_preinstall)
       /\ (spc = "recorded" /\ cur # 0
           /\ declared[cur] = "creating directory server instance") =>
             store["serverid"] = ServerId /\ toolLog = << >>
       /\ (spc = "recorded" /\ cur # 0
           /\ declared[cur] = "configuring directory to start on boot") =>
             store["enabled"] # Absent

\* C16 witness: inside the start-on-boot step of a host whose service was
\* enabled, the record is written and the setting not yet changed
RecordBeforeChangeWitness ==
    /\ status = "running"
    /\ cur # 0
    /\ declared[cur] = "configuring directory to start on boot"
    /\ spc = "recorded"
    /\ store["enabled"] = "True"
    /\ svc_enabled
    /\ store["serverid"] = ServerId
    /\ instance_exists

\* the join calls issued by the replication step of the current run
JoinCalls == SelectSeq(netCalls, LAMBDA c : c = "setup_promote_replication")

\* C17 (join at most once): the join is issued at most once in a run; when
\* it failed the run has failed in the replication step with the error the
\* join ended with, needs_memberof_fixup() was not asked, and the memberof
\* step has neither started the task nor polled.
JoinAtMostOnce ==
    /\ Len(JoinCalls) <= 1
    /\ joinError # None =>
          /\ Len(JoinCalls) = 1
          /\ rsub = "failed"
          /\ status = "failed"
          /\ failedLabel = "setting up initial replication"
          /\ failedCause = joinError
          /\ fixup_report = "unset"
          /\ memberof = "none"
          /\ polls = 0
          /\ ~Returned("setting up initial replication")
    /\ rsub = "joined" => Len(JoinCalls) = 1 /\ joinError = None

\* C17 witness: the join was refused for authentication and the run ended
\* there
JoinAtMostOnceWitness ==
    /\ joinError = "AuthenticationError"
    /\ status = "failed"
    /\ failedCause = "AuthenticationError"
    /\ netCalls = << "enable_replication_version_checking", "external_bind",
                     "setup_promote_replication" >>

\* what holds of the wait in every state
WaitBounded ==
    /\ polls \in 0..PollUpperBound
    /\ memberof = "waiting" =>
          /\ polls < PollUpperBound
          /\ ENABLED wait_for_task
    /\ memberof = "completed" => polls = markerAt /\ Returned("initializing group membership")
    /\ memberof = "timeout" =>
          /\ polls = PollUpperBound
          /\ polls < markerAt
          /\ status = "failed"
          /\ failedLabel = "initializing group membership"
          /\ failedCause = "ConsistencyTimeoutError"
          /\ ~Returned("initializing group membership")
    /\ failedCause = "ConsistencyTimeoutError" => memberof = "timeout"

\* what every step taken during the wait does
WaitProgress ==
    memberof = "waiting" =>
       /\ polls' = polls + 1
       /\ memberof' \in {"waiting", "completed", "timeout"}
       /\ memberof' = "completed" => polls' = markerAt
       /\ memberof' = "timeout" => polls' = PollUpperBound

\* C18 (the wait terminates): while the task is waited for, a poll is always
\* possible, every step is one more poll, and the number of polls stays under
\* the upper bound, so the wait ends; it ends with the completion marker seen
\* or, at the bound, with ConsistencyTimeoutError, an error nothing else
\* raises, and the step has then not returned.
WaitTerminates == [] WaitBounded /\ [][WaitProgress]_vars

\* C18 witness: the marker never appeared and the wait ended at the bound
WaitTerminatesWitness ==
    /\ memberof = "timeout"
    /\ polls = PollUpperBound
    /\ markerAt > PollUpperBound
    /\ status = "failed"
    /\ failedCause = "ConsistencyTimeoutError"

\* C19 (tool errors propagate): every external tool run that exited non-zero
\* made the operation that ran it raise to its caller: the instance-creation
\* step failed, change_admin_password raised, and a forced removal's failure
\* reached uninstall; only the unforced removal's failure is absorbed.
ToolErrorPropagates ==
    \A i \in 1..Len(toolLog) :
       ~toolLog[i][3] =>
          /\ toolLog[i][1] = "setup-ds.pl" =>
                status = "failed" /\ failedCause = "RuntimeError"
          /\ toolLog[i][1] = "ldappasswd" => pwOutcome = "raised"
          /\ (toolLog[i][1] = "remove-ds.pl" /\ toolLog[i][2] = "-f") =>
                \E e \in cleanupErrors : e[1] = "remove_ds_instance"

\* C20 (credential revocation regardless of removal): once uninstall has
\* dealt with a recorded serverid, it has attempted to untrack the server
\* certificate, to remove the keytab and to remove the credential cache,
\* whether or not the instance removal succeeded.
CredentialsRevokedRegardless ==
    (upc \in {"rest", "restarting", "returned"} /\ restored["serverid"] # None) =>
       /\ << "untrack_server_cert", restored["serverid"] >> \in Range(uninstallLog)
       /\ << "remove_keytab", "DS_KEYTAB" >> \in Range(uninstallLog)
       /\ << "remove_ccache", "DS_USER" >> \in Range(uninstallLog)

\* ------------------------------------------------- restarts of the survivors
\* the instances uninstall tried to restart, in the order of the attempts
RestartAttempts ==
    LET calls == SelectSeq(uninstallLog, LAMBDA c : c[1] = "restart")
    IN [i \in 1..Len(calls) |-> calls[i][2]]

\* the instances that remain on the host: the directories of the listing
\* that carry the prefix and a name, and do not end in ".removed"
RemainingInstances ==
    {e[2] : e \in {x \in Range(etc_dirsrv) :
                      /\ x[4]
                      /\ x[1] = DS_INSTANCE_PREFIX
                      /\ x[3] # ".removed"
                      /\ x[2] # ""}}

\* C21: when uninstall has returned, the restart attempts are exactly the
\* instances that remain on the host, each attempted once, in sorted order,
\* whether or not an earlier attempt failed; while the loop runs, the
\* attempts made and the ones still to make add up to that same list
EachRemainingRestartedOnce ==
    /\ upc \in {"restarting", "returned"} =>
          LET all == RestartAttempts \o todo IN
          /\ Range(all) = RemainingInstances
          /\ Len(all) = Cardinality(RemainingInstances)
          /\ RemainingInstances \subseteq OtherInstances \cup {ServerId}
          /\ \A i, j \in 1..Len(all) : i < j => Rank(all[i]) < Rank(all[j])
          /\ \A c \in cleanupErrors : c[1] = "restart" => c[2] \in Range(RestartAttempts)
    /\ upc = "returned" => todo = << >>

\* uninstall returned after three restart attempts in sorted order, the
\* first of which failed, on a host that also holds a removed instance
EachRemainingRestartedOnceWitness ==
    /\ upc = "returned"
    /\ RestartAttempts = << "AAA", ServerId, "ZZZ" >>
    /\ << "restart", "AAA" >> \in cleanupErrors
    /\ << "restart", "ZZZ" >> \notin cleanupErrors
    /\ \E e \in Range(etc_dirsrv) : e[3] = ".removed"

\* ------------------------------------------------------- frame of uninstall
\* the entries of a listing that belong to other instances
OtherDirs(listing) ==
    SelectSeq(listing,
              LAMBDA e : ~(e[1] = DS_INSTANCE_PREFIX /\ e[2] = ServerId))

\* C22: every step of uninstall leaves the state records of the other
\* modules as they were and leaves every directory entry of the other
\* directory server instances in place
UninstallFrame ==
    [][upc' # "none" =>
          /\ sstore_rest' = sstore_rest
          /\ OtherDirs(etc_dirsrv') = OtherDirs(etc_dirsrv)]_vars

\* uninstall returned after it restored its own "enabled" record and removed
\* its own instance, while another module holds a record under the same key
\* and another instance is still on the host
UninstallFrameWitness ==
    /\ upc = "returned"
    /\ restored["enabled"] # None
    /\ restored["serverid"] = ServerId
    /\ ~instance_exists
    /\ store["enabled"] = Absent
    /\ \E m \in OtherModules : sstore_rest[m]["enabled"] = "True"
    /\ "AAA" \in RemainingInstances
    /\ ServerId \notin RemainingInstances

\* --------------------------------------------- domain level and plugin calls
\* a call of get_domain_level against the directory
read_domain_level ==
    /\ dl_result = [raised |-> "unset"]
    /\ dl_result' = get_domain_level(dl_entry)
    /\ UNCHANGED << objVars, runVars, hostVars, storeVars, svcVars, replVars,
                    uninstVars, histVars, enabled_preinstall, toolLog, spc,
                    pwOutcome, dl_entry, plugins, pluginLog, caVars, tlsVars >>

\* variant: the payload is applied whether or not the entry exists
add_sidgen_plugin_unguarded ==
    /\ Len(pluginLog) < MaxPluginCalls
    /\ \E ldapmodOk \in BOOLEAN :
          /\ plugins' = IF ldapmodOk THEN plugins \cup {SIDGEN_DN} ELSE plugins
          /\ pluginLog' = Append(pluginLog,
                [ldif |-> "ipa-sidgen-conf.ldif", present |-> SIDGEN_DN \in plugins,
                 outcome |-> IF ldapmodOk THEN "applied" ELSE "CalledProcessError"])
    /\ UNCHANGED << objVars, runVars, hostVars, storeVars, svcVars, replVars,
                    uninstVars, histVars, enabled_preinstall, toolLog, spc,
                    pwOutcome, dl_entry, dl_result, caVars, tlsVars >>

\* DsInstance.add_sidgen_plugin: apply ipa-sidgen-conf.ldif when get_entry
\* raises NotFound, else only log that the plugin is configured
add_sidgen_plugin ==
    /\ Len(pluginLog) < MaxPluginCalls
    /\ IF SIDGEN_DN \in plugins
         THEN /\ plugins' = plugins
              /\ pluginLog' = Append(pluginLog,
                    [ldif |-> "ipa-sidgen-conf.ldif", present |-> TRUE,
                     outcome |-> "skipped"])
         ELSE \E ldapmodOk \in BOOLEAN :
              /\ plugins' = IF ldapmodOk THEN plugins \cup {SIDGEN_DN} ELSE plugins
              /\ pluginLog' = Append(pluginLog,
                    [ldif |-> "ipa-sidgen-conf.ldif", present |-> FALSE,
                     outcome |-> IF ldapmodOk THEN "applied"
                                 ELSE "CalledProcessError"])
    /\ UNCHANGED << objVars, runVars, hostVars, storeVars, svcVars, replVars,
                    uninstVars, histVars, enabled_preinstall, toolLog, spc,
                    pwOutcome, dl_entry, dl_result, caVars, tlsVars >>

\* DsInstance.add_extdom_plugin: apply ipa-extdom-extop-conf.ldif when
\* get_entry raises NotFound, else only log that the plugin is configured
add_extdom_plugin ==
    /\ Len(pluginLog) < MaxPluginCalls
    /\ IF EXTDOM_DN \in plugins
         THEN /\ plugins' = plugins
              /\ pluginLog' = Append(pluginLog,
                    [ldif |-> "ipa-extdom-extop-conf.ldif", present |-> TRUE,
                     outcome |-> "skipped"])
         ELSE \E ldapmodOk \in BOOLEAN :
              /\ plugins' = IF ldapmodOk THEN plugins \cup {EXTDOM_DN} ELSE plugins
              /\ pluginLog' = Append(pluginLog,
                    [ldif |-> "ipa-extdom-extop-conf.ldif", present |-> FALSE,
                     outcome |-> IF ldapmodOk THEN "applied"
                                 ELSE "CalledProcessError"])
    /\ UNCHANGED << objVars, runVars, hostVars, storeVars, svcVars, replVars,
                    uninstVars, histVars, enabled_preinstall, toolLog, spc,
                    pwOutcome, dl_entry, dl_result, caVars, tlsVars >>

\* the calls against a directory that may hold any of the entries
DirectoryInit ==
    /\ InstallerAtRest
    /\ dl_entry \in DomainLevelEntries
    /\ dl_result = [raised |-> "unset"]
    /\ plugins \in SUBSET PluginDNs
    /\ pluginLog = << >>
    /\ CaCertAtRest
    /\ TlsAtRest

DirectoryNext ==
    \/ read_domain_level
    \/ add_sidgen_plugin
    \/ add_extdom_plugin

DirectorySpec == DirectoryInit /\ [][DirectoryNext]_vars

\* C23: get_domain_level returns DOMAIN_LEVEL_0 when the entry is absent,
\* without raising, and returns the integer the entry stores when it exists
DomainLevelOrFloor ==
    dl_result.raised # "unset" =>
       /\ ~dl_entry.found => dl_result = [raised |-> None, value |-> DOMAIN_LEVEL_0]
       /\ \A n \in 0..MaxStoredLevel :
             dl_entry = [found |-> TRUE, ipaDomainLevel |-> str(n)]
                => dl_result = [raised |-> None, value |-> n]
       /\ dl_result.raised # "NotFound"

\* the call returned the floor level for a directory without the entry
DomainLevelOrFloorWitness ==
    /\ ~dl_entry.found
    /\ dl_result.raised = None
    /\ dl_result.value = DOMAIN_LEVEL_0

\* the successful applications of a payload recorded so far
Applied(ldif) ==
    {i \in 1..Len(pluginLog) :
        pluginLog[i].ldif = ldif /\ pluginLog[i].outcome = "applied"}

\* C30: add_sidgen_plugin and add_extdom_plugin apply their payload only
\* when the entry does not exist, skip it when the entry exists, and
\* however often they are called each payload is applied at most once
PluginPayloadOnce ==
    /\ \A i \in 1..Len(pluginLog) :
          (pluginLog[i].outcome = "skipped") = pluginLog[i].present
    /\ \A ldif \in {"ipa-sidgen-conf.ldif", "ipa-extdom-extop-conf.ldif"} :
          Cardinality(Applied(ldif)) <= 1
    /\ Applied("ipa-sidgen-conf.ldif") # {} => SIDGEN_DN \in plugins
    /\ Applied("ipa-extdom-extop-conf.ldif") # {} => EXTDOM_DN \in plugins

\* add_sidgen_plugin was called three times: the first call applied the
\* payload and the two later calls skipped it
PluginPayloadOnceWitness ==
    /\ Len(pluginLog) = 3
    /\ \A i \in 1..3 : pluginLog[i].ldif = "ipa-sidgen-conf.ldif"
    /\ pluginLog[1].outcome = "applied"
    /\ pluginLog[2].outcome = "skipped"
    /\ pluginLog[3].outcome = "skipped"

\* ------------------------------------------------------ the replica scenario
\* C24 (scenario): a create_replica run at a domain level above the floor,
\* whose peer reported that no repair is needed, that has finished all its
\* steps has enabled TLS, has skipped the group-membership repair, and has
\* left a record of the security setting it found in the state store.
ScenarioRecordsSecurity ==
    ( /\ scenario = "create_replica"
      /\ promote
      /\ status = "done"
      /\ fixup_report = "False" ) =>
         /\ security
         /\ memberof = "skipped"
         /\ polls = 0
         /\ store["nsslapd-security"] # Absent

\* ------------------------------------------------------- fresh step lists
\* C25: the list a scenario hands to the runner is exactly the list that
\* scenario declares, whatever was called on the object before, also after
\* a call that ended in a step failure; the steps that start are steps of
\* that list, and once a run is over the object holds no queued step
FreshStepLists ==
    /\ scenario = "create_instance" =>
          \E h \in BOOLEAN : declared = create_instance_steps(h)
    /\ scenario = "enable_ssl" => declared = enable_ssl_steps
    /\ scenario = "create_replica" =>
          declared = create_replica_steps(promote, pkcs12_info)
    /\ \A j \in 1..Len(trace) : trace[j][2] \in 1..Len(declared)
    /\ status # "running" => steps = << >>

\* enable_ssl ran its three steps on an object whose earlier create call
\* failed in the instance-creation step, with no uninstall in between
FreshStepListsWitness ==
    /\ scenario = "enable_ssl"
    /\ status = "done"
    /\ trace = ExpectedTrace(3)
    /\ store["serverid"] = ServerId
    /\ ~instance_exists

\* ------------------------------------------- the coordinator's state machine
\* the state of the bootstrap coordinator in a create_replica run, read off
\* the progress of __setup_replica and init_memberof; the join and the query
\* for the repair flag are one step of the model, so the state between them
\* is passed through within that step
CoordinatorState ==
    IF rsub = "failed" \/ memberof \in {"failed", "timeout"} THEN "Failed"
    ELSE IF memberof \in {"skipped", "completed"} THEN "Done"
    ELSE IF rsub = "joined" THEN "ConsistencyCheckPending"
    ELSE IF rsub = "selected" THEN "CredentialSelected"
    ELSE "Init"

CoordinatorOrder ==
    << "Init", "CredentialSelected", "AgreementEstablished",
       "ConsistencyCheckPending", "Done", "Failed" >>

CoordinatorRank(state) ==
    CHOOSE i \in 1..Len(CoordinatorOrder) : CoordinatorOrder[i] = state

\* within a create_replica run the coordinator's state changes only forward,
\* and never once it is Done or Failed
CoordinatorStep ==
    (scenario = "create_replica" /\ status = "running") =>
       \/ CoordinatorState' = CoordinatorState
       \/ /\ CoordinatorState \notin {"Done", "Failed"}
          /\ CoordinatorRank(CoordinatorState') > CoordinatorRank(CoordinatorState)

\* in a create_replica run Done is reached only with the join issued and
\* answered without error and with the repair flag set from its answer
CoordinatorDone ==
    (scenario = "create_replica" /\ CoordinatorState = "Done") =>
       /\ rsub = "joined"
       /\ JoinCalls = << "setup_promote_replication" >>
       /\ joinError = None
       /\ fixup_report \in {"True", "False"}
       /\ run_init_memberof = (fixup_report = "True")

\* C26: in a create_replica run the bootstrap coordinator's state only
\* moves forward along Init, CredentialSelected, AgreementEstablished,
\* ConsistencyCheckPending, Done, or from a non-terminal state to Failed;
\* Done and Failed are left by no step of the run; and Done is reached only
\* with an established agreement and a determined repair-needed value
CoordinatorForwardOnly == [] CoordinatorDone /\ [][CoordinatorStep]_vars

\* a create_replica run whose coordinator reached Done after the repair
\* task was awaited
CoordinatorForwardOnlyWitness ==
    /\ scenario = "create_replica"
    /\ CoordinatorState = "Done"
    /\ memberof = "completed"
    /\ fixup_report = "True"
    /\ status = "done"

\* ------------------------------------------------- order of the replica list
\* the steps that switch nsslapd-security on
TlsLabels == {"configuring TLS for DS instance", "retrieving DS Certificate"}

\* the positions of the steps of the current list that carry one of labels
Positions(labels) == {i \in 1..Len(declared) : declared[i] \in labels}

\* C27: in every create_replica run, whatever promote and the PKCS#12
\* material are, the list holds exactly one TLS-configuring step, a restart
\* of the directory server between it and 'setting up initial replication',
\* and the group-membership step after the replication step; so when the
\* replication step acts, TLS is configured and the server was restarted
\* since, and when the group-membership step acts, replication is set up
ReplicaTlsBeforeJoin ==
    scenario = "create_replica" =>
       LET tls == Positions(TlsLabels)
           join == Positions({"setting up initial replication"})
           fix == Positions({"initializing group membership"})
           restarts == Positions({"restarting directory server"})
       IN /\ Cardinality(tls) = 1
          /\ Cardinality(join) = 1
          /\ Cardinality(fix) = 1
          /\ \A t \in tls, j \in join : \E r \in restarts : t < r /\ r < j
          /\ \A j \in join, f \in fix : j < f
          /\ rsub # "none" =>
                /\ security
                /\ \A t \in tls : \E j \in 1..Len(trace) : trace[j] = << "return", t >>
                /\ \A t \in tls : \E r \in restarts :
                      /\ t < r
                      /\ \E j \in 1..Len(trace) : trace[j] = << "return", r >>
          /\ memberof # "none" => Returned("setting up initial replication")

\* a promoted replica without PKCS#12 material retrieved its certificate,
\* restarted, set up replication and went through the group-membership step
ReplicaTlsBeforeJoinWitness ==
    /\ scenario = "create_replica"
    /\ promote
    /\ ~pkcs12_info
    /\ Returned("retrieving DS Certificate")
    /\ rsub = "joined"
    /\ memberof = "skipped"

\* -------------------------------------------------- dse.ldif while stopped
\* a step with this label has started in the current run
Started(label) ==
    \E j \in 1..Len(trace) :
        /\ trace[j][1] = "start"
        /\ declared[trace[j][2]] = label

\* C28: while 'updating configuration in dse.ldif' runs, the step that
\* stops the directory server has returned and the step that starts it has
\* not begun, the last lifecycle call was the stop, the service is down and
\* the LDAP session is closed; the start step begins only after the update
\* has returned
DseUpdateWhileStopped ==
    /\ InStep("updating configuration in dse.ldif") =>
          /\ Returned("stopping directory server")
          /\ ~Started("starting directory server")
          /\ svcLog # << >>
          /\ svcLog[Len(svcLog)] = "stop"
          /\ ~running
          /\ ~connected
    /\ Started("starting directory server") =>
          Returned("updating configuration in dse.ldif")

\* the update runs in a run that found the session open: stop closed the
\* session before it stopped the service
DseUpdateWhileStoppedWitness ==
    /\ InStep("updating configuration in dse.ldif")
    /\ svcLog = << "disconnect", "stop" >>
    /\ ~connected
    /\ ~running

\* --------------------------------------------------- session and service
\* the session is open only while the service runs
SessionOnlyWhileRunning == connected => running

\* the last lifecycle operation tried to open the session only with the
\* service running
ConnectOnlyWhenRunning ==
    (\E i \in 1..Len(svcLog) : svcLog[i] = "connect") => running

\* stop closes the session before it stops the service, and start opens
\* it only after the service was started
SessionCallOrder ==
    /\ (CallIndex(svcLog, "disconnect") # 0 /\ CallIndex(svcLog, "stop") # 0) =>
          CallIndex(svcLog, "disconnect") < CallIndex(svcLog, "stop")
    /\ (CallIndex(svcLog, "start") # 0 /\ CallIndex(svcLog, "connect") # 0) =>
          CallIndex(svcLog, "start") < CallIndex(svcLog, "connect")
    /\ (CallIndex(svcLog, "stop") # 0) => ~connected

\* C29: the LDAP session is open only while the directory service runs:
\* stop closes it before stopping the service, start opens it only after
\* the service was started, and no operation tries to open the session
\* while the service is not running
SessionFollowsService ==
    /\ SessionOnlyWhileRunning
    /\ SessionCallOrder
    /\ ConnectOnlyWhenRunning

\* ----------------------------------------------------------- add_ca_cert
\* what os.access(cacert_fname, os.R_OK) comes to, and the nicknames given
AccessResults == {"readable", "unreadable", "OSError"}
CaCertNames == {"", "My CA"}

\* DsInstance.add_ca_cert, first part: the check of the file; a file that
\* cannot be read ends the call with False
add_ca_cert ==
    /\ capc \in {"none", "returned", "raised"}
    /\ \E access \in AccessResults, name \in CaCertNames :
          /\ ca_in' = [access |-> access, cacert_name |-> name]
          /\ capc' = IF access = "readable" THEN "stop" ELSE "returned"
          /\ ca_status' = IF access = "readable" THEN "unset" ELSE "False"
    /\ caLog' = << "access" >>
    /\ UNCHANGED << objVars, runVars, hostVars, storeVars, svcVars, replVars,
                    uninstVars, histVars, enabled_preinstall, toolLog, spc,
                    pwOutcome, dl_entry, dl_result, plugins, pluginLog, tlsVars, certdb >>

\* add_ca_cert, self.stop()
add_ca_cert_stop ==
    /\ capc = "stop"
    /\ \E stopOk \in BOOLEAN :
          LET r == stop(stopOk) IN
          /\ running' = r.running
          /\ connected' = r.connected
          /\ svcLog' = r.log
          /\ caLog' = caLog \o r.log
          /\ capc' = IF r.raised = None THEN "load" ELSE "raised"
          /\ ca_status' = IF r.raised = None THEN ca_status ELSE r.raised
    /\ UNCHANGED << objVars, runVars, svc_enabled, instance_exists, etc_dirsrv,
                    sstore_rest, security, storeVars, lastRestart, replVars,
                    uninstVars, histVars, enabled_preinstall, toolLog, spc,
                    pwOutcome, dl_entry, dl_result, plugins, pluginLog, tlsVars,
                    ca_in, certdb >>

\* variant: a failed import returns False at once
add_ca_cert_load_return_early ==
    /\ capc = "load"
    /\ \E importOk \in BOOLEAN :
          /\ certdb' = IF importOk
                         THEN certdb \cup {IF ca_in.cacert_name = ""
                                             THEN "Imported CA"
                                             ELSE ca_in.cacert_name}
                         ELSE certdb
          /\ caLog' = Append(caLog, IF importOk THEN "load_cacert"
                                    ELSE "load_cacert CalledProcessError")
          /\ ca_status' = BoolStr(importOk)
          /\ capc' = IF importOk THEN "start" ELSE "returned"
    /\ UNCHANGED << objVars, runVars, hostVars, storeVars, svcVars, replVars,
                    uninstVars, histVars, enabled_preinstall, toolLog, spc,
                    pwOutcome, dl_entry, dl_result, plugins, pluginLog, tlsVars, ca_in >>

\* add_ca_cert, certdb.load_cacert under the nickname given or "Imported CA";
\* its CalledProcessError is logged and turns status to False
add_ca_cert_load ==
    /\ capc = "load"
    /\ \E importOk \in BOOLEAN :
          /\ certdb' = IF importOk
                         THEN certdb \cup {IF ca_in.cacert_name = ""
                                             THEN "Imported CA"
                                             ELSE ca_in.cacert_name}
                         ELSE certdb
          /\ caLog' = Append(caLog, IF importOk THEN "load_cacert"
                                    ELSE "load_cacert CalledProcessError")
          /\ ca_status' = BoolStr(importOk)
    /\ capc' = "start"
    /\ UNCHANGED << objVars, runVars, hostVars, storeVars, svcVars, replVars,
                    uninstVars, histVars, enabled_preinstall, toolLog, spc,
                    pwOutcome, dl_entry, dl_result, plugins, pluginLog, tlsVars, ca_in >>

\* add_ca_cert, self.start() and return status
add_ca_cert_start ==
    /\ capc = "start"
    /\ \E startOk \in BOOLEAN :
          LET r == start(startOk) IN
          /\ running' = r.running
          /\ connected' = r.connected
          /\ svcLog' = r.log
          /\ caLog' = caLog \o r.log
          /\ capc' = IF r.raised = None THEN "returned" ELSE "raised"
          /\ ca_status' = IF r.raised = None THEN ca_status ELSE r.raised
    /\ UNCHANGED << objVars, runVars, svc_enabled, instance_exists, etc_dirsrv,
                    sstore_rest, security, storeVars, lastRestart, replVars,
                    uninstVars, histVars, enabled_preinstall, toolLog, spc,
                    pwOutcome, dl_entry, dl_result, plugins, pluginLog, tlsVars,
                    ca_in, certdb >>

\* calls of add_ca_cert on a host whose server may or may not run
CaCertInit ==
    /\ ObjectAtRest
    /\ running \in BOOLEAN
    /\ connected \in BOOLEAN
    /\ connected => running
    /\ DirectoryAtRest
    /\ capc = "none"
    /\ ca_in = [access |-> "unset", cacert_name |-> ""]
    /\ ca_status = "unset"
    /\ certdb \in SUBSET {"Imported CA"}
    /\ caLog = << >>
    /\ TlsAtRest

CaCertNext ==
    \/ add_ca_cert
    \/ add_ca_cert_stop
    \/ add_ca_cert_load
    \/ add_ca_cert_start

CaCertSpec == CaCertInit /\ [][CaCertNext]_vars

\* the calls of the current add_ca_cert that touch the certificate database
DbCalls == {i \in 1..Len(caLog) :
              caLog[i] \in {"load_cacert", "load_cacert CalledProcessError"}}

\* C31: add_ca_cert stops the directory server before it touches the
\* certificate database, and whenever the stop went through it calls start
\* after the import, whether the import succeeded or failed; a failed import
\* makes it return False; a CA file that cannot be read makes it return
\* False without a stop and without touching the database
CaCertStopsAndRestarts ==
    /\ \A i \in DbCalls :
          /\ CallIndex(caLog, "stop") # 0
          /\ CallIndex(caLog, "stop") < i
    /\ capc \in {"returned", "raised"} =>
          /\ \A i \in DbCalls :
                /\ CallIndex(caLog, "start") # 0
                /\ i < CallIndex(caLog, "start")
          /\ (CallIndex(caLog, "stop") # 0 /\ DbCalls = {}) =>
                capc = "raised" /\ ca_status = "CalledProcessError"
          /\ ca_in.access # "readable" =>
                /\ capc = "returned"
                /\ ca_status = "False"
                /\ caLog = << "access" >>
          /\ (capc = "returned"
              /\ CallIndex(caLog, "load_cacert CalledProcessError") # 0) =>
                ca_status = "False"
          /\ (capc = "returned" /\ CallIndex(caLog, "load_cacert") # 0) =>
                ca_status = "True"

\* the import failed on a server whose session was open: the server was
\* stopped, started again and reconnected, and the call returned False
CaCertStopsAndRestartsWitness ==
    /\ capc = "returned"
    /\ ca_status = "False"
    /\ caLog = << "access", "disconnect", "stop",
                  "load_cacert CalledProcessError", "start", "connect" >>
    /\ running
    /\ connected

\* ------------------------------------------- start-on-boot round trip
\* C32: the last install step records the start-on-boot setting it finds and
\* then disables the service; uninstall enables the service exactly when the
\* value it restored was enabled; so once uninstall has consumed a record of
\* the setting, the setting is what it was before the installation
StartOnBootRoundTrip ==
    /\ Returned("configuring directory to start on boot") =>
          /\ store["enabled"] = BoolStr(enabled_preinstall)
          /\ ~svc_enabled
    /\ upc # "none" =>
          /\ (\E i \in 1..Len(uninstallLog) : uninstallLog[i][1] = "enable")
                = (restored["enabled"] = "True")
          /\ restored["enabled"] # None =>
                /\ restored["enabled"] = BoolStr(enabled_preinstall)
                /\ svc_enabled = enabled_preinstall

\* uninstall has returned after an installation that found the service
\* enabled: it restored the record and enabled the service again
StartOnBootRoundTripWitness ==
    /\ upc = "returned"
    /\ restored["enabled"] = "True"
    /\ restored["serverid"] = ServerId
    /\ enabled_preinstall
    /\ svc_enabled

\* ---------------------------------------------- uninstall consumes its state
\* uninstall has returned with every key it restores gone from the store
StoreConsumed ==
    upc = "returned" =>
       /\ \A k \in StateKeys : store[k] = Absent
       /\ backupLog = << >>

\* an uninstall that found no record made no undo call: no re-enable, no
\* certificate untracking, no instance removal, no keytab or ccache removal
NothingRecordedNothingUndone ==
    (upc # "none" /\ recorded = << >>) =>
       /\ UndoCalls = {}
       /\ toolLog = << >>
       /\ \A k \in StateKeys : restored[k] = None

\* an uninstall that begins right after another one returned finds no record
SecondUninstallFindsNothing ==
    (upc = "returned" /\ upc' = "serverid") => recorded' = << >>

\* C33: after uninstall returns none of the keys enabled, running, serverid,
\* user_exists, nsslapd-port, nsslapd-security, nsslapd-ldapiautobind is in
\* the store, so an uninstall that follows finds no record and attempts no
\* instance removal, no certificate untracking and no re-enable
UninstallConsumesState ==
    /\ [] StoreConsumed
    /\ [] NothingRecordedNothingUndone
    /\ [][SecondUninstallFindsNothing]_vars

\* an uninstall returned that found nothing recorded although a replica
\* installation had recorded its state before: an earlier uninstall took it
UninstallConsumesStateWitness ==
    /\ upc = "returned"
    /\ recorded = << >>
    /\ flagSource = "join"
    /\ UndoCalls = {}

\* ------------------------------------------- the arguments of the join call
\* a replica installation whose caller may pass a ca_file, up to the join
ReplicaNext ==
    \/ create_replica_ca_file
    \/ StartStep
    \/ payload_step
    \/ create_instance_backup
    \/ create_instance_step
    \/ stop_instance
    \/ start_instance
    \/ restart_instance
    \/ configure_tls
    \/ setup_replica_connect
    \/ setup_replica_select
    \/ setup_replica_join

ReplicaSpec == Init /\ [][ReplicaNext]_vars

\* the join call was made in the current run
JoinMade == \E i \in 1..Len(netCalls) : netCalls[i] = "setup_promote_replication"

modify_ca_helper(current, helper) == [helper |-> helper, returned |-> current]

\* __enable_ssl without pkcs12_info, first part:
\* prev_helper = certmonger.modify_ca_helper('IPA', helper)
enable_ssl_helper ==
    /\ InStep("configuring TLS for DS instance")
    /\ ~pkcs12_info
    /\ tpc = "none"
    /\ LET r == modify_ca_helper(ca_helper, DogtagSubmit) IN
       /\ ca_helper' = r.helper
       /\ prev_helper' = r.returned
       /\ helperLog' = << [helper |-> DogtagSubmit, returned |-> r.returned] >>
    /\ tpc' = "request"
    /\ UNCHANGED << objVars, runVars, hostVars, storeVars, svcVars, replVars,
                    uninstVars, histVars, enabled_preinstall, toolLog, spc,
                    pwOutcome, dl_entry, dl_result, plugins, pluginLog, caVars >>

\* variant: the helper is put back only after a request that succeeded
enable_ssl_request_no_finally ==
    /\ InStep("configuring TLS for DS instance")
    /\ tpc = "request"
    /\ \E issued \in BOOLEAN :
          IF issued
            THEN LET r == modify_ca_helper(ca_helper, prev_helper) IN
                 /\ ca_helper' = r.helper
                 /\ helperLog' = Append(helperLog,
                                        [helper |-> prev_helper,
                                         returned |-> r.returned])
                 /\ tpc' = "configure"
                 /\ UNCHANGED << steps, runVars >>
            ELSE /\ tpc' = "none"
                 /\ StepRaises("RuntimeError")
                 /\ UNCHANGED << ca_helper, helperLog >>
    /\ UNCHANGED << objRest, hostVars, storeVars, svcVars, replVars,
                    uninstVars, histVars, enabled_preinstall, toolLog, spc,
                    pwOutcome, dl_entry, dl_result, plugins, pluginLog, caVars,
                    prev_helper >>

\* __enable_ssl, second part: try: certmonger.request_and_wait_for_cert(...)
\* finally: certmonger.modify_ca_helper('IPA', prev_helper); an error of the
\* request leaves the method after the finally clause
enable_ssl_request ==
    /\ InStep("configuring TLS for DS instance")
    /\ tpc = "request"
    /\ LET r == modify_ca_helper(ca_helper, prev_helper) IN
       /\ ca_helper' = r.helper
       /\ helperLog' = Append(helperLog,
                              [helper |-> prev_helper, returned |-> r.returned])
    /\ \E issued \in BOOLEAN :
          IF issued
            THEN /\ tpc' = "configure"
                 /\ UNCHANGED << steps, runVars >>
            ELSE /\ tpc' = "none"
                 /\ StepRaises("RuntimeError")
    /\ UNCHANGED << objRest, hostVars, storeVars, svcVars, replVars,
                    uninstVars, histVars, enabled_preinstall, toolLog, spc,
                    pwOutcome, dl_entry, dl_result, plugins, pluginLog, caVars,
                    prev_helper >>

\* __enable_ssl, last part: the encryption settings and nsslapd-security: on
enable_ssl_configure ==
    /\ InStep("configuring TLS for DS instance")
    /\ tpc = "configure"
    /\ tpc' = "none"
    /\ security' = TRUE
    /\ StepReturns
    /\ UNCHANGED << objRest, running, connected, svc_enabled, instance_exists,
                    etc_dirsrv, sstore_rest, storeVars, svcVars, replVars,
                    uninstVars, histVars, enabled_preinstall, toolLog, spc,
                    pwOutcome, dl_entry, dl_result, plugins, pluginLog, caVars,
                    ca_helper, prev_helper, helperLog >>

\* an object without pkcs12_info on a host whose certmonger holds any helper
TlsInit ==
    /\ InstallerAtRest
    /\ DirectoryAtRest
    /\ CaCertAtRest
    /\ tpc = "none"
    /\ ca_helper \in Helpers
    /\ prev_helper = "unset"
    /\ helperLog = << >>

\* enable_ssl with the certificate requested through certmonger
TlsNext ==
    \/ enable_ssl
    \/ StartStep
    \/ enable_ssl_helper
    \/ enable_ssl_request
    \/ enable_ssl_configure
    \/ restart_instance
    \/ payload_step

TlsSpec == TlsInit /\ [][TlsNext]_vars

\* C35: the helper set for the certificate request is put back to the value
\* it had before the request whenever the request is over, also when the
\* request failed and the step raised: the second modify_ca_helper call is
\* given what the first returned
HelperRestored ==
    /\ tpc = "request" =>
          /\ Len(helperLog) = 1
          /\ ca_helper = DogtagSubmit
    /\ (tpc # "request" /\ helperLog # << >>) =>
          /\ Len(helperLog) = 2
          /\ helperLog[2].helper = helperLog[1].returned
          /\ helperLog[1].returned \in Helpers
          /\ ca_helper = helperLog[1].returned
    /\ helperLog = << >> => ca_helper \in Helpers

\* the TLS step raised after its request failed and the helper is the one
\* certmonger held before
HelperRestoredWitness ==
    /\ status = "failed"
    /\ failedLabel = "configuring TLS for DS instance"
    /\ failedCause = "RuntimeError"
    /\ Len(helperLog) = 2
    /\ helperLog[2].returned = DogtagSubmit
    /\ ca_helper = "helper B"

\* ------------------------------------------- uninstall without a serverid
\* the keys of the restore_state calls uninstall made, in order
RestoreCalls ==
    LET calls == SelectSeq(uninstallLog, LAMBDA c : c[1] = "restore_state")
    IN [i \in 1..Len(calls) |-> calls[i][2]]

\* C36: when the store held no serverid record, uninstall untracks no
\* certificate, removes no instance, keytab or credential cache and runs no
\* tool, and it still makes the restore_state calls of the four remaining
\* keys and attempts the restart of every instance on the host
NoServeridNoRemoval ==
    (upc \in {"rest", "restarting", "returned"} /\ restored["serverid"] = None) =>
       /\ \A e \in Range(uninstallLog) :
             e[1] \in {"restore_state", "restore_file", "enable", "restart"}
       /\ \A e \in cleanupErrors : e[1] # "remove_ds_instance"
       /\ toolLog = << >>
       /\ upc \in {"restarting", "returned"} =>
             /\ RestoreCalls = RestoreOrder
             /\ \A i \in 1..Len(RestKeys) : store[RestKeys[i]] = Absent
       /\ upc = "restarting" =>
             RestartAttempts \o todo = get_ds_instances(etc_dirsrv)
       /\ upc = "returned" =>
             RestartAttempts = get_ds_instances(etc_dirsrv)

\* an uninstall returned that found no serverid, restored a recorded port
\* and security setting, and attempted the restart of two instances
NoServeridNoRemovalWitness ==
    /\ upc = "returned"
    /\ restored["serverid"] = None
    /\ restored["nsslapd-port"] # None
    /\ restored["nsslapd-security"] # None
    /\ Len(RestartAttempts) >= 2
    /\ RestartAttempts = get_ds_instances(etc_dirsrv)

====
